---- MODULE Spec2Model ----
(***************************************************************************)
(* Revenue recognition and cash-flow projection engine of the sales        *)
(* forecast system: override resolution (DataManager), payment schedule    *)
(* resolution and validation (payment_templates, PaymentScheduleService)   *)
(* and the cash-flow projector (UnifiedCashFlowService).                   *)
(*                                                                         *)
(* Units.  Amounts are integers in 0.01 wan-yuan ("cents"), which is what *)
(* round(2) of the code produces; the amount of an override row is kept in *)
(* 0.001 wan-yuan ("milli") before it is rounded.  Win rates are integers  *)
(* in 0.5 percent.  Stage ratios are integers in 0.001 (per-mille).  A     *)
(* decay factor is an integer in 0.001.  A cash-flow entry amount is the   *)
(* exact product revenue(cents) * ratio(per-mille), i.e. in 10^-5 wan.     *)
(* An optional value (None / NaN / NaT / empty cell) is the empty          *)
(* sequence <<>>, a present value v is <<v>>.                              *)
(***************************************************************************)
EXTENDS Integers, Sequences, FiniteSets, TLC

VARIABLES
    projects,       \* record store: record_id -> project row (Feishu sales tables)
    overrides,      \* record store: the Overrides table, a sequence of rows
    decay_lambda,   \* forecast config decay_lambda, in 0.001 per month
    edited_data,    \* session state "edited_data": <<>> or <<table>>
    local_cache,    \* local cache file of SalesDataService: <<>> or <<project rows>>
    returned,       \* table handed back by the last get_active_data
    ov_fetch,       \* how the last read got the overrides: "none", "ok", "failed"
    schedules,      \* record store: the payment schedule table, a sequence of rows
    ps_cache,       \* UnifiedCashFlowService._payment_schedule_cache: <<>> or <<table>>
    editor,         \* new_stages of the last save click of the schedule editor
    cf_row,         \* the project row handed to the cash-flow projector
    cash_flow,      \* entries produced by the last cash-flow computation
    stages_used,    \* the stage list the last cash-flow computation iterated over
    tpl_in,         \* argument of validate_template
    tpl_out,        \* result of validate_template: <<>> or <<is_valid>>
    cash_flow_df,   \* the cash-flow table handed to the analysis functions
    current_month,  \* datetime.now().replace(day=1) / the first month of the range
    months_ahead,   \* months_ahead / the number of months of the forecast range
    initial_cash,   \* initial_cash / current_cash, in 10^-5 wan
    monthly_expense,  \* monthly_expense of calculate_runway, in 10^-5 wan
    monthly_costs,  \* cash-flow page: non-tax costs of each month of the range
    tax_rate,       \* cash-flow page: tax rate, in percent
    monthly_summary,  \* result of calculate_monthly_summary
    forecast_df,    \* result of forecast_cash_flow
    runway,         \* result of the runway computation: <<>> or <<record>>
    data_hash,      \* session state "data_hash": <<>> or <<digest>>
    data_version,   \* session state "data_version": <<>> or <<time of the load or save>>
    data_source,    \* session state "data_source": "none", "feishu" or "local_cache"
    ov_services,    \* the live OverrideService instances: mapping cache and its age
    next_fid,       \* next record id the record store hands out on create
    clock,          \* wall clock (datetime.now()), in ticks
    pc              \* name of the last operation completed

vars == <<projects, overrides, decay_lambda, edited_data, local_cache, returned,
          ov_fetch, schedules, ps_cache, editor, cf_row, cash_flow, stages_used, tpl_in, tpl_out,
          cash_flow_df, current_month, months_ahead, initial_cash, monthly_expense,
          monthly_costs, tax_rate, monthly_summary, forecast_df, runway,
          data_hash, data_version, data_source, ov_services,
          next_fid, clock, pc>>

revenueVars == <<projects, overrides, decay_lambda, edited_data, local_cache,
                 returned, ov_fetch>>
sessionVars == <<data_hash, data_version, data_source>>
scheduleVars == <<schedules, ps_cache, editor>>
cashVars == <<cf_row, cash_flow, stages_used>>
templateVars == <<tpl_in, tpl_out>>
analysisVars == <<cash_flow_df, current_month, months_ahead, initial_cash, monthly_expense,
                  monthly_costs, tax_rate, monthly_summary, forecast_df, runway>>

----------------------------------------------------------------------------
(* Optional values and small helpers *)

None == <<>>
Some(v) == <<v>>
IsNone(x) == x = <<>>
NotNone(x) == x # <<>>
Val(x) == x[1]

Abs(n) == IF n < 0 THEN -n ELSE n

RECURSIVE SumSeq(_)
SumSeq(s) == IF s = <<>> THEN 0 ELSE Head(s) + SumSeq(Tail(s))

\* numpy/pandas round: nearest integer of n/d (d > 0), ties to even
RoundHalfEven(n, d) ==
    LET q == n \div d
        r == n % d
    IN  IF 2 * r < d THEN q
        ELSE IF 2 * r > d THEN q + 1
        ELSE IF q % 2 = 0 THEN q ELSE q + 1

\* Series.round(2) of the exact value num/den cents, in cents
Round2(num, den) == RoundHalfEven(num, den)

----------------------------------------------------------------------------
(* Calendar dates.  A date is [y, m, d]; NoDate is NaT (a null cell of an  *)
(* existing date column).  A timestamp is counted in days since 1970-01-01 *)
(* (the code's epoch milliseconds / 86 400 000; every date is a midnight). *)

NoDate == [y |-> 0, m |-> 0, d |-> 0]
\* None: what row.get answers for a date column the table does not have
NoneDate == [y |-> -1, m |-> 0, d |-> 0]
HasDate(dt) == dt.y > 0
\* bool(x) of a date cell: only None is falsy, NaT is truthy
Truthy(dt) == dt # NoneDate
Date(yy, mm, dd) == [y |-> yy, m |-> mm, d |-> dd]

IsLeap(yy) == (yy % 4 = 0 /\ yy % 100 # 0) \/ yy % 400 = 0

DaysInMonth(yy, mm) ==
    IF mm = 2 THEN (IF IsLeap(yy) THEN 29 ELSE 28)
    ELSE IF mm \in {4, 6, 9, 11} THEN 30 ELSE 31

\* days since 1970-01-01 (proleptic Gregorian), the integer part of
\* Timestamp.timestamp() / 86400 for a naive midnight timestamp
DateToDays(dt) ==
    LET yy == IF dt.m <= 2 THEN dt.y - 1 ELSE dt.y
        era == yy \div 400
        yoe == yy - era * 400
        mp == (dt.m + 9) % 12
        doy == (153 * mp + 2) \div 5 + dt.d - 1
        doe == yoe * 365 + yoe \div 4 - yoe \div 100 + doy
    IN  era * 146097 + doe - 719468

\* pd.to_datetime(ts, unit="ms"): the date of a day count
DaysToDate(n) ==
    LET z == n + 719468
        era == z \div 146097
        doe == z - era * 146097
        yoe == (doe - doe \div 1460 + doe \div 36524 - doe \div 146096) \div 365
        doy == doe - (365 * yoe + yoe \div 4 - yoe \div 100)
        mp == (5 * doy + 2) \div 153
        dd == doy - (153 * mp + 2) \div 5 + 1
        mm == IF mp < 10 THEN mp + 3 ELSE mp - 9
        yy == yoe + era * 400 + (IF mm <= 2 THEN 1 ELSE 0)
    IN  Date(yy, mm, dd)

\* base + relativedelta(months=n): n calendar months away, the day of month
\* clamped to the length of the target month
AddMonths(dt, n) ==
    LET idx == dt.y * 12 + (dt.m - 1) + n
        yy == idx \div 12
        mm == (idx % 12) + 1
        last == DaysInMonth(yy, mm)
    IN  Date(yy, mm, IF dt.d > last THEN last ELSE dt.d)

\* strftime("%Y-%m"): <<year, month>>; the empty month string is <<>>
MonthOf(dt) == <<dt.y, dt.m>>

\* the wall clock date of every run of the model
Today == Date(2024, 1, 31)

----------------------------------------------------------------------------
(* DataManager: amount, win rate, time decay, override merge *)

\* bounds of the model
MaxOverrides == 2
MaxClock == 3

RIDs == {"r1", "r2"}

\* _parse_amount_wan._one: an empty / NaN cell is 0.0, a number is kept with
\* its sign (the regular expression keeps "-")
ParseAmountWan(cell) == IF IsNone(cell) THEN 0 ELSE Val(cell)

\* _parse_rate_percent._one.  A cell is [k |-> "none"] (empty, nan, none),
\* [k |-> "num", a] (the number a, which may carry a minus sign),
\* [k |-> "pct", a] ("a%"), [k |-> "range", a, b] ("a-b" or "a%-b%") or
\* [k |-> "text"] (anything to_numeric cannot read); a and b in percent,
\* the result optional, in 0.5 percent.  The "%" signs are removed first; a
\* text with a "-" whose non-empty pieces start with two numbers is their
\* midpoint (the split drops a sign in front of a bound), any other text
\* goes through to_numeric.
ParseRateOne(cell) ==
    CASE cell.k = "none" -> None
      [] cell.k = "range" -> Some(Abs(cell.a) + Abs(cell.b))
      [] cell.k \in {"num", "pct"} -> Some(2 * cell.a)
      [] OTHER -> None

\* mutant: the values outside [0, 100] are kept
ParseRatePercentNoFilter(cell) == ParseRateOne(cell)

\* _parse_rate_percent: _one followed by the [0, 100] filter
ParseRatePercent(cell) ==
    LET parsed == ParseRateOne(cell)
    IN  IF NotNone(parsed) /\ Val(parsed) >= 0 /\ Val(parsed) <= 200
        THEN parsed ELSE None

\* np.exp(-x) for x = n/1000 >= 0, in 10^-4, by binary decomposition of n over
\* the table round(10^4 * exp(-2^k/1000)), k = 0..12 (fixed point, truncated)
ExpTable == <<9990, 9980, 9960, 9920, 9841, 9685, 9380, 8799, 7741, 5993,
              3592, 1290, 166>>

RECURSIVE ExpNegBits(_, _)
ExpNegBits(n, k) ==
    IF n = 0 THEN 10000
    ELSE IF k > Len(ExpTable) THEN 0
    ELSE LET rest == ExpNegBits(n \div 2, k + 1)
         IN  IF n % 2 = 1 THEN (rest * ExpTable[k]) \div 10000 ELSE rest

\* exp(-n/1000) in 0.001
ExpNeg(n) == ExpNegBits(n, 1) \div 10

\* the column _compute_time_decay_factor parses: the first of expected
\* completion, delivery, start that has a non-null value in ANY row
DecayDateColumn(rows) ==
    IF \E r \in DOMAIN rows : HasDate(rows[r].expected_date) THEN "expected_date"
    ELSE IF \E r \in DOMAIN rows : HasDate(rows[r].delivery_date) THEN "delivery_date"
    ELSE IF \E r \in DOMAIN rows : HasDate(rows[r].start_date) THEN "start_date"
    ELSE "none"

\* (date - base_dt).dt.days: base_dt = now + offset carries the time of day
\* of now, so the difference to a midnight date is floored one day down
DeltaDays(dt, base) == DateToDays(dt) - DateToDays(base) - 1

\* mutant: delta_months is not clipped at 0, a date in the past inflates
ComputeTimeDecayFactorNoClip(rows, r, lambda) ==
    LET col == DecayDateColumn(rows)
        dt == IF col = "none" THEN NoDate ELSE rows[r][col]
    IN  IF lambda <= 0 THEN 1000
        ELSE IF col = "none" THEN 1000
        ELSE IF ~HasDate(dt) THEN 1000
        ELSE LET dd == DeltaDays(dt, Today)
             IN  IF dd < 0 THEN 1000 + (lambda * (-dd)) \div 30
                 ELSE ExpNeg((lambda * dd) \div 30)

\* _compute_time_decay_factor for the row r of the frame rows, in 0.001
ComputeTimeDecayFactor(rows, r, lambda) ==
    LET col == DecayDateColumn(rows)
        dt == IF col = "none" THEN NoDate ELSE rows[r][col]
    IN  IF lambda <= 0 THEN 1000
        ELSE IF col = "none" THEN 1000
        ELSE IF ~HasDate(dt) THEN 1000
        ELSE LET dd == DeltaDays(dt, Today)
                 clipped == IF dd < 0 THEN 0 ELSE dd
             IN  ExpNeg((lambda * clipped) \div 30)

\* OverrideService.fetch_overrides: the rows with a record_id and an amount
RECURSIVE FetchOverrides(_)
FetchOverrides(table) ==
    IF table = <<>> THEN <<>>
    ELSE LET row == Head(table)
             rest == FetchOverrides(Tail(table))
         IN  IF row.record_id # "" /\ NotNone(row.amount)
             THEN <<row>> \o rest ELSE rest

\* _fetch_overrides_latest: sort_values("updated_at") puts NaT last and keeps
\* the table order among the NaT rows; groupby(...).last() then takes the
\* last row of each record_id.  The candidates are the indices of ov_df that
\* can end up last for rid: the last NaT row when there is one, otherwise any
\* row with the greatest updated_at (the sort is not stable).
LatestCandidates(ov_df, rid) ==
    LET mine == {i \in 1..Len(ov_df) : ov_df[i].record_id = rid}
        nat == {i \in mine : IsNone(ov_df[i].updated_at)}
    IN  IF nat # {} THEN {CHOOSE i \in nat : \A j \in nat : j <= i}
        ELSE {i \in mine : \A j \in mine :
                  Val(ov_df[j].updated_at) <= Val(ov_df[i].updated_at)}

\* the latest-override frames _fetch_overrides_latest can return: one row
\* index per record_id that has rows
FetchOverridesLatest(ov_df) ==
    LET ids == {ov_df[i].record_id : i \in 1..Len(ov_df)}
    IN  {f \in [ids -> 1..Len(ov_df)] :
            \A rid \in ids : f[rid] \in LatestCandidates(ov_df, rid)}

\* _system_pred_amount before rounding is amount * rate/100 * decay; the
\* value returned is the numerator over PredDen cents
SystemPredNum(rows, r, lambda) ==
    LET rate == ParseRatePercent(rows[r].rate_cell)
        rate_for_calc == IF IsNone(rate) THEN 0 ELSE Val(rate)
    IN  ParseAmountWan(rows[r].amount_cell) * rate_for_calc
            * ComputeTimeDecayFactor(rows, r, lambda)

\* denominator of SystemPredNum: rate in 0.5 percent, decay in 0.001
PredDen == 200 * 1000

\* mutant: the override is ignored
FinalAmountIgnoresOverride(manual, pred_num) == Round2(pred_num, PredDen)

\* step 5 of _standardize_data: manual.where(manual.notna(), pred), round(2);
\* manual in milli, the result in cents
FinalAmount(manual, pred_num) ==
    IF NotNone(manual) THEN Round2(Val(manual), 10)
    ELSE Round2(pred_num, PredDen)

\* _standardize_data: one output row, given the latest-override choice
StandardizeRow(rows, r, lambda, ov_df, latest) ==
    LET manual == IF r \in DOMAIN latest THEN ov_df[latest[r]].amount ELSE None
        pred_num == SystemPredNum(rows, r, lambda)
    IN  [record_id |-> r,
         customer |-> rows[r].customer,
         business_line |-> rows[r].business_line,
         start_date |-> rows[r].start_date,
         delivery_date |-> rows[r].delivery_date,
         expected_date |-> rows[r].expected_date,
         amount_num |-> Round2(ParseAmountWan(rows[r].amount_cell), 1),
         rate_num |-> ParseRatePercent(rows[r].rate_cell),
         system_pred_amount |-> Round2(pred_num, PredDen),
         manual_override |-> IF IsNone(manual) THEN None
                             ELSE Some(Round2(Val(manual), 10)),
         final_amount |-> Some(FinalAmount(manual, pred_num))]

StandardizeData(rows, lambda, ov_df, latest) ==
    [r \in DOMAIN rows |-> StandardizeRow(rows, r, lambda, ov_df, latest)]

----------------------------------------------------------------------------
(* Reading project data: DataManager.get_active_data *)

\* SalesDataService.load_all_sales_data(prefer_local_cache=True): the local
\* cache file when there is one, else the rows of the record store
LoadAllSalesData == IF NotNone(local_cache) THEN Val(local_cache) ELSE projects

\* _compute_hash: the md5 digest of the table's JSON text, taken as free of
\* collisions: a digest stands for the table it was computed from
ComputeHash(df) == df

\* the session state written after a load or a save
SetSession(df, source) ==
    /\ edited_data' = Some(df)
    /\ data_source' = source
    /\ data_hash' = Some(ComputeHash(df))
    /\ data_version' = Some(clock)

\* _load_from_feishu with the overrides fetch succeeding (ok) or raising,
\* and latest the row _fetch_overrides_latest kept for each record_id
LoadFromFeishu(ok, latest) ==
    LET df == LoadAllSalesData
        ov_df == IF ok THEN FetchOverrides(overrides) ELSE <<>>
        out == StandardizeData(df, decay_lambda, ov_df, latest)
    IN  /\ latest \in FetchOverridesLatest(ov_df)
        /\ ov_fetch' = IF ok THEN "ok" ELSE "failed"
        /\ IF DOMAIN df = {}
           THEN returned' = Some(df) /\ UNCHANGED <<edited_data, sessionVars>>
           ELSE returned' = Some(out) /\ SetSession(out, "feishu")

\* the branch of get_active_data that reads the local cache file itself
LoadFromLocalCache(ok, latest) ==
    LET ov_df == IF ok THEN FetchOverrides(overrides) ELSE <<>>
        cached == StandardizeData(Val(local_cache), decay_lambda, ov_df, latest)
    IN  /\ latest \in FetchOverridesLatest(ov_df)
        /\ ov_fetch' = IF ok THEN "ok" ELSE "failed"
        /\ returned' = Some(cached)
        /\ SetSession(cached, "local_cache")

\* get_active_data(force_reload)
GetActiveData(force) ==
    /\ IF force
       THEN \E ok \in BOOLEAN :
                \E latest \in FetchOverridesLatest(
                                 IF ok THEN FetchOverrides(overrides) ELSE <<>>) :
                    LoadFromFeishu(ok, latest)
       ELSE IF NotNone(edited_data)
       THEN /\ returned' = edited_data
            /\ ov_fetch' = "none"
            /\ UNCHANGED <<edited_data, sessionVars>>
       ELSE \E ok \in BOOLEAN :
                \E latest \in FetchOverridesLatest(
                                 IF ok THEN FetchOverrides(overrides) ELSE <<>>) :
                    IF NotNone(local_cache) /\ DOMAIN Val(local_cache) # {}
                    THEN LoadFromLocalCache(ok, latest)
                    ELSE LoadFromFeishu(ok, latest)
    /\ pc' = "get_active_data"
    /\ UNCHANGED <<projects, overrides, decay_lambda, local_cache, next_fid, clock>>
    /\ UNCHANGED <<scheduleVars, cashVars, templateVars, analysisVars, ov_services>>

----------------------------------------------------------------------------
(* Writing overrides: OverrideService.upsert_override and the page handler *)

\* _get_record_id_mapping on a fresh service: record_id -> index of the LAST
\* row of the table carrying it (later rows overwrite earlier dict entries)
RecordIdMapping(table) ==
    LET ids == {table[i].record_id : i \in 1..Len(table)} \ {""}
    IN  [rid \in ids |->
            CHOOSE i \in 1..Len(table) :
                /\ table[i].record_id = rid
                /\ \A j \in 1..Len(table) : table[j].record_id = rid => j <= i]

\* upsert_override: PUT on the mapped row when the record_id is mapped,
\* POST of a new row otherwise
UpsertOverride(table, rid, amount, ts, fid) ==
    LET mapping == RecordIdMapping(table)
        fields == [record_id |-> rid, amount |-> Some(amount), updated_at |-> Some(ts)]
    IN  IF rid \in DOMAIN mapping
        THEN [table EXCEPT ![mapping[rid]] =
                 [fid |-> table[mapping[rid]].fid] @@ fields]
        ELSE Append(table, [fid |-> fid] @@ fields)

\* amounts a user types into the override editor, in milli
OverrideInputs == {-5000, 12345, 60000}

\* save_overrides_btn handler, one changed row (rid, amt): a new
\* OverrideService upserts it with updated_at = now; a failed request is
\* reported and changes nothing
SaveOverrides(rid, amt, ok) ==
    /\ NotNone(returned)
    /\ rid \in DOMAIN Val(returned)
    /\ Val(returned)[rid].manual_override # Some(Round2(amt, 10))
    /\ clock < MaxClock
    /\ clock' = clock + 1
    /\ IF ok /\ (rid \in DOMAIN RecordIdMapping(overrides) \/ Len(overrides) < MaxOverrides)
       THEN /\ overrides' = UpsertOverride(overrides, rid, amt, clock', next_fid)
            /\ next_fid' = IF rid \in DOMAIN RecordIdMapping(overrides)
                           THEN next_fid ELSE next_fid + 1
            /\ pc' = "upsert_override"
       ELSE /\ UNCHANGED <<overrides, next_fid>>
            /\ pc' = "upsert_failed"
    /\ UNCHANGED <<projects, decay_lambda, edited_data, local_cache, returned, ov_fetch>>
    /\ UNCHANGED <<scheduleVars, cashVars, templateVars, analysisVars, sessionVars, ov_services>>

----------------------------------------------------------------------------
(* payment_templates: the catalog.  The names of templates, stages and     *)
(* business lines are transliterated: standard_5_4_1 is the template       *)
(* "standard three payments (5-4-1)", spectrum / dispensing / automation   *)
(* are the three business lines of DEFAULT_TEMPLATE_BY_BUSINESS.           *)

TStage(n, r, off, b) == [name |-> n, ratio |-> r, offset_months |-> off, base |-> b]

\* mutant: a catalog whose four_3_3_3_1 template keeps 0.2 as warranty
PAYMENT_TEMPLATES_unbalanced ==
    [name \in {"standard_5_4_1", "four_3_3_3_1"} |->
        <<TStage("down_payment", 500, -1, "start"),
          TStage("arrival_acceptance", 400, 0, "delivery"),
          TStage("warranty", IF name = "four_3_3_3_1" THEN 200 ELSE 100, 12, "delivery")>>]

PAYMENT_TEMPLATES ==
    [standard_5_4_1 |->
        <<TStage("down_payment", 500, -1, "start"),
          TStage("arrival_acceptance", 400, 0, "delivery"),
          TStage("warranty", 100, 12, "delivery")>>,
     standard_3_6_1 |->
        <<TStage("down_payment", 300, -1, "start"),
          TStage("arrival_acceptance", 600, 0, "delivery"),
          TStage("warranty", 100, 12, "delivery")>>,
     four_3_3_3_1 |->
        <<TStage("down_payment", 300, 0, "start"),
          TStage("arrival", 300, 0, "delivery"),
          TStage("acceptance", 300, 1, "delivery"),
          TStage("warranty", 100, 12, "delivery")>>,
     four_2_3_4_1 |->
        <<TStage("prepayment", 200, 0, "start"),
          TStage("shipment", 300, -1, "delivery"),
          TStage("acceptance", 400, 0, "delivery"),
          TStage("warranty", 100, 12, "delivery")>>,
     five_2_2_3_2_1 |->
        <<TStage("prepayment", 200, 0, "start"),
          TStage("shipment", 200, -1, "delivery"),
          TStage("arrival", 300, 0, "delivery"),
          TStage("acceptance", 200, 1, "delivery"),
          TStage("warranty", 100, 12, "delivery")>>,
     lease_equal |->
        <<TStage("down_payment", 200, 0, "start"),
          TStage("quarter_1", 200, 3, "start"),
          TStage("quarter_2", 200, 6, "start"),
          TStage("quarter_3", 200, 9, "start"),
          TStage("final", 200, 12, "start")>>,
     full_payment |-> <<TStage("full", 1000, 0, "start")>>,
     cash_on_delivery |-> <<TStage("full", 1000, 0, "delivery")>>]

DEFAULT_TEMPLATE_BY_BUSINESS ==
    [spectrum |-> "standard_5_4_1",
     dispensing |-> "standard_5_4_1",
     automation |-> "four_3_3_3_1"]

DEFAULT_TEMPLATE == "standard_5_4_1"

get_template(template_name) ==
    IF template_name \in DOMAIN PAYMENT_TEMPLATES
    THEN PAYMENT_TEMPLATES[template_name]
    ELSE PAYMENT_TEMPLATES[DEFAULT_TEMPLATE]

get_default_template_for_business(business_line) ==
    IF business_line \in DOMAIN DEFAULT_TEMPLATE_BY_BUSINESS
    THEN DEFAULT_TEMPLATE_BY_BUSINESS[business_line]
    ELSE DEFAULT_TEMPLATE

RECURSIVE SumRatios(_)
SumRatios(stages) ==
    IF stages = <<>> THEN 0 ELSE Head(stages).ratio + SumRatios(Tail(stages))

\* mutant: the tolerance check on the ratio sum is dropped
validate_template_no_sum(stages) ==
    /\ stages # <<>>
    /\ \A i \in 1..Len(stages) : stages[i].name # "" /\ stages[i].ratio > 0

\* validate_template: is_valid.  abs(total - 1.0) > 0.01 is a failure, then
\* a stage without name or with ratio <= 0 is
validate_template(stages) ==
    /\ stages # <<>>
    /\ ~(Abs(SumRatios(stages) - 1000) > 10)
    /\ \A i \in 1..Len(stages) : stages[i].name # "" /\ stages[i].ratio > 0

\* the template validation as an operation on the list tpl_in
ValidateTemplate ==
    /\ pc = "init"
    /\ tpl_out' = Some(validate_template(tpl_in))
    /\ pc' = "validated"
    /\ UNCHANGED <<tpl_in, next_fid, clock>>
    /\ UNCHANGED <<revenueVars, scheduleVars, cashVars, analysisVars, sessionVars, ov_services>>


----------------------------------------------------------------------------
(* The payment schedule table and its save handler *)

\* json.dumps of a stage list, the text of the payment_stages field, and
\* json.loads of that text; a text that is not JSON loads as []
JsonDumps(stages) == [k |-> "json", v |-> stages]
JsonLoads(text) == IF text.k = "json" THEN text.v ELSE <<>>

\* date_to_timestamp / pd.to_datetime(ts, unit="ms") of a stage date
DateToTimestamp(dt) == IF HasDate(dt) THEN Some(DateToDays(dt)) ELSE None

\* index of the first row of the table with this record_id, 0 when none
\* (hit.iloc[0])
RECURSIVE FirstHit(_, _, _)
FirstHit(table, rid, i) ==
    IF i > Len(table) THEN 0
    ELSE IF table[i].record_id = rid THEN i
    ELSE FirstHit(table, rid, i + 1)

\* PaymentScheduleService.save: update the first row of the project in the
\* table it loaded, else create a row
SaveSchedule(table, loaded, rid, tname, stages, now) ==
    LET hit == FirstHit(loaded, rid, 1)
        fields == [record_id |-> rid, template_name |-> tname,
                   payment_stages |-> JsonDumps(stages), updated_at |-> now]
    IN  IF hit > 0 THEN [table EXCEPT ![hit] = fields]
        ELSE Append(table, fields)

\* the save button of the payment schedule editor.  rows are the rows of
\* the data editor: name, percentage (in 0.1 percent) and payment date;
\* new_stages is the stored form of the rows
NewStages(rows) ==
    [i \in 1..Len(rows) |->
        [name |-> rows[i].name, ratio |-> rows[i].pct,
         date |-> DateToTimestamp(rows[i].date)]]

SavePaymentSchedule(rid, tname, rows, load_ok, write_ok) ==
    LET new_stages == NewStages(rows)
        total == SumRatios(new_stages)
        loaded == IF load_ok THEN schedules ELSE <<>>
    IN  /\ clock < MaxClock
        /\ clock' = clock + 1
        /\ editor' = new_stages
        /\ IF Abs(total - 1000) > 10
           THEN /\ pc' = "schedule_rejected"
                /\ UNCHANGED schedules
           ELSE IF write_ok
           THEN /\ schedules' = SaveSchedule(schedules, loaded, rid, tname,
                                             new_stages, clock')
                /\ pc' = "schedule_saved"
           ELSE /\ pc' = "schedule_save_failed"
                /\ UNCHANGED schedules
        /\ UNCHANGED <<ps_cache, next_fid>>
        /\ UNCHANGED <<revenueVars, cashVars, templateVars, analysisVars, sessionVars, ov_services>>

----------------------------------------------------------------------------
(* UnifiedCashFlowService *)

\* load_payment_schedules: the cached table, else the table of the record
\* store, an empty table when the read fails
LoadPaymentSchedules(load_ok) ==
    IF NotNone(ps_cache) THEN Val(ps_cache)
    ELSE IF load_ok THEN schedules ELSE <<>>

\* get_project_payment_stages: <<template_name, stages>>
GetProjectPaymentStages(table, rid) ==
    LET hit == FirstHit(table, rid, 1)
    IN  IF hit = 0 THEN <<"", <<>> >>
        ELSE <<table[hit].template_name, JsonLoads(table[hit].payment_stages)>>

\* apply_template_with_dates
ApplyTemplateWithDates(template_stages, start_date, delivery_date) ==
    [i \in 1..Len(template_stages) |->
        LET stage == template_stages[i]
            base_date == IF stage.base = "start" THEN start_date
                         ELSE delivery_date
            pay_date == IF Truthy(base_date) /\ HasDate(base_date)
                        THEN AddMonths(base_date, stage.offset_months)
                        ELSE NoneDate
        IN  [name |-> stage.name, ratio |-> stage.ratio,
             date |-> DateToTimestamp(pay_date), date_obj |-> pay_date]]

\* _get_revenue: the first of _final_amount, the override column and the
\* contract amount column that holds a value
GetRevenue(row) ==
    IF NotNone(row.final_amount) THEN Val(row.final_amount)
    ELSE IF NotNone(row.manual_override) THEN Val(row.manual_override)
    ELSE IF NotNone(row.amount) THEN Val(row.amount)
    ELSE 0

\* the payment date of a stage in calculate_project_cash_flow: date_obj,
\* else the stored timestamp when it is truthy, else None
PayDate(stage) ==
    IF "date_obj" \in DOMAIN stage /\ HasDate(stage.date_obj)
    THEN stage.date_obj
    ELSE IF NotNone(stage.date) /\ Val(stage.date) # 0
    THEN DaysToDate(Val(stage.date))
    ELSE NoneDate

\* mutant: a persisted schedule is ignored
ResolveStagesTemplateOnly(row, saved_stages) ==
    ApplyTemplateWithDates(
        get_template(get_default_template_for_business(row.business_line)),
        row.start_date,
        IF Truthy(row.delivery_date) THEN row.delivery_date
        ELSE row.expected_date)

\* the stages calculate_project_cash_flow works on
ResolveStages(row, saved_stages) ==
    IF saved_stages # <<>> THEN saved_stages
    ELSE ApplyTemplateWithDates(
             get_template(get_default_template_for_business(row.business_line)),
             row.start_date,
             IF Truthy(row.delivery_date) THEN row.delivery_date
             ELSE row.expected_date)

\* the loop of calculate_project_cash_flow from stage i on
RECURSIVE CashFlowItems(_, _, _, _, _)
CashFlowItems(row, revenue, stages, from_saved, i) ==
    IF i > Len(stages) THEN <<>>
    ELSE LET stage == stages[i]
             pay_date == PayDate(stage)
             rest == CashFlowItems(row, revenue, stages, from_saved, i + 1)
         IN  IF stage.ratio <= 0 THEN rest
             ELSE IF pay_date = NoneDate /\ ~from_saved THEN rest
             ELSE <<[project_name |-> row.customer,
                     business_line |-> row.business_line,
                     type |-> stage.name,
                     amount |-> revenue * stage.ratio,
                     pay_date |-> pay_date,
                     month |-> IF HasDate(pay_date) THEN MonthOf(pay_date)
                               ELSE <<>>,
                     ratio |-> stage.ratio,
                     record_id |-> row.record_id]>> \o rest

\* calculate_project_cash_flow on the row cf_row, by the service instance
\* of the session: once at the start and once after every schedule save
CalculateProjectCashFlow(load_ok) ==
    LET revenue == GetRevenue(cf_row)
        table == LoadPaymentSchedules(load_ok)
        saved_stages == GetProjectPaymentStages(table, cf_row.record_id)[2]
        stages == ResolveStages(cf_row, saved_stages)
    IN  /\ pc # "cash_flow"
        /\ IF revenue <= 0
           THEN /\ cash_flow' = <<>>
                /\ stages_used' = <<>>
                /\ UNCHANGED ps_cache
           ELSE /\ ps_cache' = Some(table)
                /\ stages_used' = stages
                /\ cash_flow' = CashFlowItems(cf_row, revenue, stages,
                                              saved_stages # <<>>, 1)
        /\ pc' = "cash_flow"
        /\ UNCHANGED <<schedules, editor, cf_row, next_fid, clock>>
        /\ UNCHANGED <<revenueVars, templateVars, analysisVars, sessionVars, ov_services>>


----------------------------------------------------------------------------
(* CashFlowHelper: monthly summary, forecast and runway.  A month string  *)
(* "YYYY-MM" is <<year, month>>, the empty string is <<>>, a NaN month is *)
(* NaMonth and the string "NaT" is NaTMonth.                              *)

NaMonth == <<-1>>
NaTMonth == <<9999, 99>>

\* the rank of a month string in the order of strings: "" first, "NaT" last
MonthKey(m) == IF m = <<>> THEN 0 ELSE m[1] * 12 + m[2]

\* pd.to_datetime(...).dt.to_period("M").astype(str)
ToPeriodMonth(dt) == IF HasDate(dt) THEN MonthOf(dt) ELSE NaTMonth

RECURSIVE SortMonths(_)
SortMonths(S) ==
    IF S = {} THEN <<>>
    ELSE LET m == CHOOSE x \in S : \A y \in S : MonthKey(x) <= MonthKey(y)
         IN  <<m>> \o SortMonths(S \ {m})

\* the sum of the amounts of the rows of df from row i on whose month is m
RECURSIVE MonthTotal(_, _, _)
MonthTotal(df, m, i) ==
    IF i > Len(df) THEN 0
    ELSE (IF df[i].month = m THEN df[i].amount ELSE 0) + MonthTotal(df, m, i + 1)

\* dropna(subset=["month"]): the rows that are grouped
MonthlyKeptRows(working) ==
    {i \in 1..Len(working) : working[i].month # NaMonth}

\* calculate_monthly_summary
CalculateMonthlySummary(df) ==
    IF df = <<>> THEN <<>>
    ELSE LET working ==
                 IF \A i \in 1..Len(df) : df[i].month = NaMonth
                 THEN [i \in 1..Len(df) |->
                          [df[i] EXCEPT !.month = ToPeriodMonth(df[i].pay_date)]]
                 ELSE df
             kept == MonthlyKeptRows(working)
             grouped == [i \in 1..Len(working) |->
                            IF i \in kept THEN working[i]
                            ELSE [working[i] EXCEPT !.amount = 0]]
             months == SortMonths({working[i].month : i \in kept})
         IN  [k \in 1..Len(months) |->
                 [month |-> months[k],
                  monthly_cash |-> MonthTotal(grouped, months[k], 1),
                  project_count |->
                      Cardinality({working[i].project_name :
                                      i \in {j \in kept : working[j].month = months[k]}}),
                  pay_month |-> months[k]]]

\* calculate_monthly_summary as an operation on the table cash_flow_df
MonthlySummary ==
    /\ pc = "init"
    /\ monthly_summary' = CalculateMonthlySummary(cash_flow_df)
    /\ pc' = "monthly_summary"
    /\ UNCHANGED <<cash_flow_df, current_month, months_ahead, initial_cash,
                   monthly_expense, monthly_costs, tax_rate, forecast_df,
                   runway, next_fid, clock>>
    /\ UNCHANGED <<revenueVars, scheduleVars, cashVars, templateVars, sessionVars, ov_services>>

\* _add_months: months >= 0 calendar months after date, the day clamped
HelperAddMonths(date, months) ==
    LET month0 == date.m - 1 + months
        year == date.y + (month0 \div 12)
        month == (month0 % 12) + 1
        last == DaysInMonth(year, month)
    IN  Date(year, month, IF date.d < last THEN date.d ELSE last)

\* the monthly_cash value merged onto month m, 0 (fillna) when there is none
RECURSIVE MergedCash(_, _, _)
MergedCash(monthly_cash, m, k) ==
    IF k > Len(monthly_cash) THEN 0
    ELSE IF monthly_cash[k].month = m THEN monthly_cash[k].monthly_cash
    ELSE MergedCash(monthly_cash, m, k + 1)

\* cumsum: the sum of the first n forecast values
RECURSIVE CumSum(_, _)
CumSum(values, n) == IF n = 0 THEN 0 ELSE values[n] + CumSum(values, n - 1)

RECURSIVE DropZeroMonths(_)
DropZeroMonths(rows) ==
    IF rows = <<>> THEN <<>>
    ELSE IF Head(rows).forecast # 0
    THEN <<Head(rows)>> \o DropZeroMonths(Tail(rows))
    ELSE DropZeroMonths(Tail(rows))

\* forecast_cash_flow
ForecastCashFlow(df, ahead, fill_zero_months, now_month) ==
    IF df = <<>> THEN <<>>
    ELSE LET future_months ==
                 [i \in 1..ahead |-> MonthOf(HelperAddMonths(now_month, i - 1))]
             monthly_cash == CalculateMonthlySummary(df)
             values == [i \in 1..ahead |->
                           MergedCash(monthly_cash, future_months[i], 1)]
             all_months == [i \in 1..ahead |->
                               [month |-> future_months[i],
                                forecast |-> values[i],
                                cumulative |-> CumSum(values, i)]]
         IN  IF fill_zero_months THEN all_months
             ELSE DropZeroMonths(all_months)

\* forecast_cash_flow as an operation on the table cash_flow_df
Forecast(fill_zero_months) ==
    /\ pc = "init"
    /\ forecast_df' = ForecastCashFlow(cash_flow_df, months_ahead,
                                       fill_zero_months, current_month)
    /\ pc' = IF fill_zero_months THEN "forecast_filled" ELSE "forecast"
    /\ UNCHANGED <<cash_flow_df, current_month, months_ahead, initial_cash,
                   monthly_expense, monthly_costs, tax_rate, monthly_summary,
                   runway, next_fid, clock>>
    /\ UNCHANGED <<revenueVars, scheduleVars, cashVars, templateVars, sessionVars, ov_services>>

\* the running balance of calculate_runway after row i
RECURSIVE Balance(_, _, _)
Balance(net, initial, i) ==
    IF i = 1 THEN initial + net[1] ELSE Balance(net, initial, i - 1) + net[i]

\* mutant: the count goes on after a month with a balance <= 0
RECURSIVE RunwayMonthsAllPositive(_, _)
RunwayMonthsAllPositive(balances, i) ==
    IF i > Len(balances) THEN 0
    ELSE (IF balances[i] <= 0 THEN 0 ELSE 1) + RunwayMonthsAllPositive(balances, i + 1)

\* the runway loop from row i on: stop at the first balance <= 0
RECURSIVE RunwayMonths(_, _)
RunwayMonths(balances, i) ==
    IF i > Len(balances) THEN 0
    ELSE IF balances[i] <= 0 THEN 0
    ELSE 1 + RunwayMonths(balances, i + 1)

\* mutant: the minimum is taken over the months of the runway only
MinBalanceOfRunway(balances) ==
    LET n == RunwayMonths(balances, 1)
        upto == IF n = 0 THEN 1 ELSE n
    IN  CHOOSE b \in {balances[i] : i \in 1..upto} :
            \A i \in 1..upto : b <= balances[i]

\* min() of the balance column
MinBalance(balances) ==
    CHOOSE b \in {balances[i] : i \in 1..Len(balances)} :
        \A i \in 1..Len(balances) : b <= balances[i]

\* mutant: the balance column starts from 0
RunwayTableNoInitial(months, income, costs, initial) ==
    LET net == [i \in 1..Len(months) |-> income[i] - costs[i]]
    IN  [i \in 1..Len(months) |->
            [month |-> months[i], income |-> income[i], expense |-> costs[i],
             net_flow |-> net[i], balance |-> Balance(net, 0, i)]]

\* the monthly table of the runway: income, costs, net flow and balance
RunwayTable(months, income, costs, initial) ==
    LET net == [i \in 1..Len(months) |-> income[i] - costs[i]]
    IN  [i \in 1..Len(months) |->
            [month |-> months[i], income |-> income[i], expense |-> costs[i],
             net_flow |-> net[i], balance |-> Balance(net, initial, i)]]

\* mutant: no data is reported with a minimum balance of 0
NoDataResultZero(initial) ==
    [runway_months |-> 0, min_cash_balance |-> 0, monthly_summary |-> <<>>]

\* the result of calculate_runway when there is nothing to project
NoDataResult(initial) ==
    [runway_months |-> 0, min_cash_balance |-> initial, monthly_summary |-> <<>>]

\* calculate_runway
CalculateRunway(df, initial, expense, ahead, now_month) ==
    IF df = <<>> THEN NoDataResult(initial)
    ELSE LET forecast == ForecastCashFlow(df, ahead, TRUE, now_month)
         IN  IF forecast = <<>> THEN NoDataResult(initial)
             ELSE LET table == RunwayTable(
                                   [i \in 1..Len(forecast) |-> forecast[i].month],
                                   [i \in 1..Len(forecast) |-> forecast[i].forecast],
                                   [i \in 1..Len(forecast) |-> expense],
                                   initial)
                      balances == [i \in 1..Len(table) |-> table[i].balance]
                  IN  [runway_months |-> RunwayMonths(balances, 1),
                       min_cash_balance |-> MinBalance(balances),
                       monthly_summary |-> table]

\* calculate_runway as an operation on the table cash_flow_df
HelperRunway ==
    /\ pc = "init"
    /\ runway' = Some(CalculateRunway(cash_flow_df, initial_cash,
                                      monthly_expense, months_ahead,
                                      current_month))
    /\ pc' = "calculate_runway"
    /\ UNCHANGED <<cash_flow_df, current_month, months_ahead, initial_cash,
                   monthly_expense, monthly_costs, tax_rate, monthly_summary,
                   forecast_df, next_fid, clock>>
    /\ UNCHANGED <<revenueVars, scheduleVars, cashVars, templateVars, sessionVars, ov_services>>

----------------------------------------------------------------------------
(* The cash-flow analysis page: its own projector with the tax of every    *)
(* entry, and its runway table.  The entry amounts are in 10^-5 wan, the   *)
(* tax rate in percent, so the tax of an entry and every column of the     *)
(* page's runway table are in 10^-7 wan.                                   *)

\* the page's apply_template_with_dates: "date" is a Timestamp or None,
\* kept in the field date_obj (the field date holds stored timestamps)
PageApplyTemplateWithDates(template_stages, start_date, delivery_date) ==
    [i \in 1..Len(template_stages) |->
        LET stage == template_stages[i]
            base_date == IF stage.base = "start" THEN start_date
                         ELSE delivery_date
            pay_date == IF Truthy(base_date) /\ HasDate(base_date)
                        THEN AddMonths(base_date, stage.offset_months)
                        ELSE NoneDate
        IN  [name |-> stage.name, ratio |-> stage.ratio, date_obj |-> pay_date]]

\* the payment date of a stage in calculate_unified_cash_flow: a Timestamp
\* is taken as it is, a truthy stored timestamp goes through
\* timestamp_to_date, anything else is None
PagePayDate(stage) ==
    IF "date_obj" \in DOMAIN stage
    THEN (IF HasDate(stage.date_obj) THEN stage.date_obj ELSE NoneDate)
    ELSE IF NotNone(stage.date) /\ Val(stage.date) # 0
    THEN DaysToDate(Val(stage.date))
    ELSE NoneDate

\* mutant: the entries carry no tax
PaymentTaxUntaxed(payment_amount, rate) == 0

\* payment_tax = payment_amount * tax_rate
PaymentTax(payment_amount, rate) == payment_amount * rate

\* the stage loop of calculate_unified_cash_flow from stage i on
RECURSIVE PageCashFlowItems(_, _, _, _, _)
PageCashFlowItems(row, revenue, stages, rate, i) ==
    IF i > Len(stages) THEN <<>>
    ELSE LET stage == stages[i]
             pay_date == PagePayDate(stage)
             payment_amount == revenue * stage.ratio
             rest == PageCashFlowItems(row, revenue, stages, rate, i + 1)
         IN  IF stage.ratio <= 0 THEN rest
             ELSE <<[project_name |-> row.customer,
                     business_line |-> row.business_line,
                     type |-> stage.name,
                     amount |-> payment_amount,
                     pay_date |-> pay_date,
                     month |-> IF HasDate(pay_date) THEN MonthOf(pay_date)
                               ELSE <<>>,
                     ratio |-> stage.ratio,
                     record_id |-> row.record_id,
                     tax |-> PaymentTax(payment_amount, rate)]>> \o rest

\* one row of the loop of calculate_unified_cash_flow; table is what
\* ps_service.load answered for this row
PageProjectCashFlow(row, table, rate) ==
    IF IsNone(row.final_amount) \/ Val(row.final_amount) <= 0 THEN <<>>
    ELSE LET saved_stages == GetProjectPaymentStages(table, row.record_id)[2]
             stages ==
                 IF saved_stages # <<>> THEN saved_stages
                 ELSE PageApplyTemplateWithDates(
                          get_template(get_default_template_for_business(
                                           row.business_line)),
                          row.start_date,
                          IF Truthy(row.delivery_date) THEN row.delivery_date
                          ELSE row.expected_date)
         IN  PageCashFlowItems(row, Val(row.final_amount), stages, rate, 1)

\* the order df.iterrows() visits the rows
RowOrder == <<"r1", "r2">>

\* calculate_unified_cash_flow from the k-th row on.  loads[k] tells whether
\* the read of the schedule table succeeds at row k: a failed read answers
\* an empty table and is not cached, a successful one is cached
RECURSIVE calculate_unified_cash_flow(_, _, _, _)
calculate_unified_cash_flow(df, loads, rate, k) ==
    IF k > Len(RowOrder) THEN <<>>
    ELSE LET table == IF \E j \in 1..k : loads[j] THEN schedules ELSE <<>>
         IN  PageProjectCashFlow(df[RowOrder[k]], table, rate)
                 \o calculate_unified_cash_flow(df, loads, rate, k + 1)

\* generate_month_list(forecast_start, forecast_end)
GenerateMonthList(start, n) ==
    [i \in 1..n |-> MonthOf(AddMonths(start, i - 1))]

\* groupby(month)[column].sum() of the valid entries, for one month
RECURSIVE PageMonthSum(_, _, _, _)
PageMonthSum(entries, m, column, i) ==
    IF i > Len(entries) THEN 0
    ELSE (IF entries[i].month = m THEN entries[i][column] ELSE 0)
             + PageMonthSum(entries, m, column, i + 1)

\* the runway section of the page: sales income and tax of the month of
\* each entry, merged on the months of the range; costs[i] holds the labour,
\* administrative, material and occasional costs of month i and its
\* occasional income
PageRunwayTable(entries, months, costs, current_cash) ==
    LET sales == [i \in 1..Len(months) |->
                     100 * PageMonthSum(entries, months[i], "amount", 1)]
        tax == [i \in 1..Len(months) |->
                   PageMonthSum(entries, months[i], "tax", 1)]
        base == RunwayTable(months,
                            [i \in 1..Len(months) |-> sales[i] + costs[i].occ_income],
                            [i \in 1..Len(months) |-> costs[i].cost + tax[i]],
                            current_cash)
    IN  [i \in 1..Len(months) |->
            base[i] @@ [sales |-> sales[i], tax |-> tax[i]]]

\* the page run from the projection to the runway metrics.  Without an
\* entry in the forecast range the page shows a warning and no runway.
PageRunway(loads) ==
    LET entries == calculate_unified_cash_flow(Val(returned), loads, tax_rate, 1)
        months == GenerateMonthList(current_month, months_ahead)
        in_range == {i \in 1..Len(entries) :
                        /\ entries[i].month # <<>>
                        /\ MonthKey(months[1]) <= MonthKey(entries[i].month)
                        /\ MonthKey(entries[i].month) <= MonthKey(months[Len(months)])}
        table == PageRunwayTable(entries, months, monthly_costs, initial_cash)
        balances == [i \in 1..Len(table) |-> table[i].balance]
    IN  /\ pc = "init"
        /\ NotNone(returned)
        /\ months_ahead >= 1
        /\ Len(monthly_costs) = months_ahead
        /\ cash_flow_df' = entries
        /\ IF in_range = {}
           THEN /\ pc' = "page_no_cash_flow"
                /\ UNCHANGED runway
           ELSE /\ pc' = "page_runway"
                /\ runway' = Some([runway_months |-> RunwayMonths(balances, 1),
                                   min_cash_balance |-> MinBalance(balances),
                                   monthly_summary |-> table])
        /\ UNCHANGED <<current_month, months_ahead, initial_cash,
                       monthly_expense, monthly_costs, tax_rate,
                       monthly_summary, forecast_df, next_fid, clock>>
        /\ UNCHANGED <<revenueVars, scheduleVars, cashVars, templateVars, sessionVars, ov_services>>

----------------------------------------------------------------------------
(* UnifiedCashFlowService.calculate_all_cash_flows.  A stored stage whose  *)
(* ratio is a text and not a number carries the field ratio_text.          *)

\* calculate_project_cash_flow raises: the comparison ratio <= 0 of a
\* stored stage with a text ratio is a TypeError nothing catches
ProjectRaises(row, table) ==
    LET saved_stages == GetProjectPaymentStages(table, row.record_id)[2]
    IN  /\ GetRevenue(row) > 0
        /\ \E i \in 1..Len(saved_stages) : "ratio_text" \in DOMAIN saved_stages[i]

\* the entries calculate_project_cash_flow returns for one row
ProjectCashFlow(row, table) ==
    LET revenue == GetRevenue(row)
        saved_stages == GetProjectPaymentStages(table, row.record_id)[2]
    IN  IF revenue <= 0 THEN <<>>
        ELSE CashFlowItems(row, revenue, ResolveStages(row, saved_stages),
                           saved_stages # <<>>, 1)

\* the loop of calculate_all_cash_flows from the k-th row on
RECURSIVE AllCashFlows(_, _, _)
AllCashFlows(df, table, k) ==
    IF k > Len(RowOrder) THEN <<>>
    ELSE ProjectCashFlow(df[RowOrder[k]], table) \o AllCashFlows(df, table, k + 1)

\* calculate_all_cash_flows on the table returned; an exception of one row
\* leaves the loop and the function
CalculateAllCashFlows(load_ok) ==
    LET df == Val(returned)
        table == LoadPaymentSchedules(load_ok)
    IN  /\ pc = "init"
        /\ NotNone(returned)
        /\ ps_cache' = IF \E r \in DOMAIN df : GetRevenue(df[r]) > 0
                       THEN Some(table) ELSE ps_cache
        /\ IF \E r \in DOMAIN df : ProjectRaises(df[r], table)
           THEN /\ pc' = "all_cash_flows_raised"
                /\ UNCHANGED cash_flow_df
           ELSE /\ pc' = "all_cash_flows"
                /\ cash_flow_df' = AllCashFlows(df, table, 1)
        /\ UNCHANGED <<current_month, months_ahead, initial_cash,
                       monthly_expense, monthly_costs, tax_rate,
                       monthly_summary, forecast_df, runway, next_fid, clock>>
        /\ UNCHANGED <<revenueVars, schedules, editor, cashVars, templateVars,
                       sessionVars, ov_services>>

----------------------------------------------------------------------------
(* PaymentScheduleService.apply_template *)

\* mutant: a month is 30 days
PayDateByDays(base_date, offset) == DaysToDate(DateToDays(base_date) + 30 * offset)

\* base_date + relativedelta(months=offset)
PayDateOf(base_date, offset) == AddMonths(base_date, offset)

\* apply_template: the stages of a template dated from the project's start
\* and delivery date, the date stored as a timestamp
ApplyTemplate(template_stages, start_date, delivery_date) ==
    [i \in 1..Len(template_stages) |->
        LET stage == template_stages[i]
            base_date == IF stage.base = "start" THEN start_date
                         ELSE delivery_date
        IN  [name |-> stage.name, ratio |-> stage.ratio,
             date |-> IF Truthy(base_date) /\ HasDate(base_date)
                      THEN DateToTimestamp(PayDateOf(base_date, stage.offset_months))
                      ELSE None]]

\* apply_template on the dates of the row cf_row with a template of the
\* catalog; stages_used keeps the template
ApplyTemplateToProject(template_name) ==
    /\ pc = "init"
    /\ cf_row # <<>>
    /\ stages_used' = get_template(template_name)
    /\ editor' = ApplyTemplate(get_template(template_name), cf_row.start_date,
                               cf_row.delivery_date)
    /\ pc' = "apply_template"
    /\ UNCHANGED <<schedules, ps_cache, cf_row, cash_flow, next_fid, clock>>
    /\ UNCHANGED <<revenueVars, templateVars, analysisVars, sessionVars, ov_services>>

----------------------------------------------------------------------------
(* OverrideService instances that live across calls: the mapping cache *)

\* _cache_ttl_seconds, and the step of the wall clock between two calls
CacheTtlSeconds == 60
TickSeconds == 30

IndexOfFid(table, fid) ==
    IF \E i \in 1..Len(table) : table[i].fid = fid
    THEN CHOOSE i \in 1..Len(table) : table[i].fid = fid
    ELSE 0

\* the dict _get_record_id_mapping builds from a full read of the table:
\* the record_id field of a row -> the record id of the row in the store
FetchRecordIdMapping(table) ==
    [rid \in DOMAIN RecordIdMapping(table) |-> table[RecordIdMapping(table)[rid]].fid]

\* _is_cache_valid
IsCacheValid(svc) ==
    NotNone(svc.record_id_cache) /\ svc.cache_age < CacheTtlSeconds

\* _get_record_id_mapping(force_refresh=False): the cached dict while it is
\* valid, else a fresh read that replaces the cache
GetRecordIdMapping(svc, table) ==
    IF IsCacheValid(svc) THEN svc
    ELSE [record_id_cache |-> Some(FetchRecordIdMapping(table)), cache_age |-> 0]

RemoveAt(table, i) ==
    [j \in 1..(Len(table) - 1) |-> IF j < i THEN table[j] ELSE table[j + 1]]

WithoutKey(f, k) == [x \in DOMAIN f \ {k} |-> f[x]]

\* upsert_override on the instance s; read_ok / write_ok tell whether the
\* mapping read and the PUT or POST get through.  A PUT on a record id the
\* store no longer holds is answered with an error and raises.
ServiceUpsertOverride(s, rid, amount, read_ok, write_ok) ==
    LET svc == ov_services[s]
        got == GetRecordIdMapping(svc, overrides)
        mapping == Val(got.record_id_cache)
        fields == [record_id |-> rid, amount |-> Some(amount), updated_at |-> Some(clock')]
    IN  /\ pc \in {"init", "service_upsert", "service_upsert_raised",
                   "service_delete", "service_delete_raised", "tick"}
        /\ clock < MaxClock
        /\ clock' = clock + 1
        /\ IF ~IsCacheValid(svc) /\ ~read_ok
           THEN /\ pc' = "service_upsert_raised"
                /\ UNCHANGED <<overrides, next_fid, ov_services>>
           ELSE IF rid \in DOMAIN mapping
           THEN LET i == IndexOfFid(overrides, mapping[rid])
                IN  /\ ov_services' = [ov_services EXCEPT ![s] = got]
                    /\ UNCHANGED next_fid
                    /\ IF write_ok /\ i # 0
                       THEN /\ overrides' = [overrides EXCEPT ![i] =
                                                [fid |-> overrides[i].fid] @@ fields]
                            /\ pc' = "service_upsert"
                       ELSE /\ UNCHANGED overrides
                            /\ pc' = "service_upsert_raised"
           ELSE IF write_ok /\ Len(overrides) < MaxOverrides
           THEN /\ overrides' = Append(overrides, [fid |-> next_fid] @@ fields)
                /\ next_fid' = next_fid + 1
                /\ ov_services' =
                       [ov_services EXCEPT ![s] =
                           [got EXCEPT !.record_id_cache =
                               Some((rid :> next_fid) @@ mapping)]]
                /\ pc' = "service_upsert"
           ELSE /\ ov_services' = [ov_services EXCEPT ![s] = got]
                /\ UNCHANGED <<overrides, next_fid>>
                /\ pc' = "service_upsert_raised"
        /\ UNCHANGED <<projects, decay_lambda, edited_data, local_cache, returned, ov_fetch>>
        /\ UNCHANGED <<scheduleVars, cashVars, templateVars, analysisVars, sessionVars>>

\* delete_override on the instance s
ServiceDeleteOverride(s, rid, read_ok, write_ok) ==
    LET svc == ov_services[s]
        got == GetRecordIdMapping(svc, overrides)
        mapping == Val(got.record_id_cache)
    IN  /\ pc \in {"init", "service_upsert", "service_upsert_raised",
                   "service_delete", "service_delete_raised", "tick"}
        /\ IF ~IsCacheValid(svc) /\ ~read_ok
           THEN /\ pc' = "service_delete_raised"
                /\ UNCHANGED <<overrides, ov_services>>
           ELSE IF rid \notin DOMAIN mapping
           THEN /\ ov_services' = [ov_services EXCEPT ![s] = got]
                /\ UNCHANGED overrides
                /\ pc' = "service_delete"
           ELSE LET i == IndexOfFid(overrides, mapping[rid])
                IN  IF write_ok /\ i # 0
                    THEN /\ overrides' = RemoveAt(overrides, i)
                         /\ ov_services' =
                                [ov_services EXCEPT ![s] =
                                    [got EXCEPT !.record_id_cache =
                                        Some(WithoutKey(mapping, rid))]]
                         /\ pc' = "service_delete"
                    ELSE /\ ov_services' = [ov_services EXCEPT ![s] = got]
                         /\ UNCHANGED overrides
                         /\ pc' = "service_delete_raised"
        /\ UNCHANGED <<projects, decay_lambda, edited_data, local_cache, returned, ov_fetch>>
        /\ UNCHANGED <<next_fid, clock>>
        /\ UNCHANGED <<scheduleVars, cashVars, templateVars, analysisVars, sessionVars>>

\* TickSeconds of wall-clock time pass between two calls: every mapping cache
\* ages (datetime.now() - _cache_timestamp), up to the age where it expired
Tick ==
    /\ pc \in {"service_upsert", "service_upsert_raised",
               "service_delete", "service_delete_raised"}
    /\ \E s \in DOMAIN ov_services : ov_services[s].cache_age < CacheTtlSeconds
    /\ ov_services' =
           [s \in DOMAIN ov_services |->
               [ov_services[s] EXCEPT !.cache_age =
                   IF @ < CacheTtlSeconds THEN @ + TickSeconds ELSE @]]
    /\ pc' = "tick"
    /\ UNCHANGED <<revenueVars, next_fid, clock>>
    /\ UNCHANGED <<scheduleVars, cashVars, templateVars, analysisVars, sessionVars>>

----------------------------------------------------------------------------
(* Saving project data: DataManager.save_data *)

\* DataSchema.cast_column_types on one row: a negative amount becomes 0
\* (min_value), a win rate is read by to_numeric (anything but a plain
\* number becomes NaN) and clamped to [0, 100]
CastAmount(cell) == IF NotNone(cell) /\ Val(cell) < 0 THEN Some(0) ELSE cell

CastRate(cell) ==
    IF cell.k = "num"
    THEN [cell EXCEPT !.a = IF @ < 0 THEN 0 ELSE IF @ > 100 THEN 100 ELSE @]
    ELSE [k |-> "none", a |-> 0, b |-> 0]

CastColumnTypes(df) ==
    [r \in DOMAIN df |->
        [df[r] EXCEPT !.amount_cell = CastAmount(@), !.rate_cell = CastRate(@)]]

\* SalesDataService._prepare_record_data and update_record: the fact fields
\* of the row that are not NaN replace those of the stored record
WriteBack(stored, row) ==
    [customer |-> row.customer,
     business_line |-> stored.business_line,
     amount_cell |-> IF NotNone(row.amount_cell) THEN row.amount_cell
                     ELSE stored.amount_cell,
     rate_cell |-> IF row.rate_cell.k # "none" THEN row.rate_cell ELSE stored.rate_cell,
     start_date |-> IF HasDate(row.start_date) THEN row.start_date ELSE stored.start_date,
     delivery_date |-> IF HasDate(row.delivery_date) THEN row.delivery_date
                       ELSE stored.delivery_date,
     expected_date |-> IF HasDate(row.expected_date) THEN row.expected_date
                       ELSE stored.expected_date]

\* save_data(df, save_to_feishu): df lacks a required column (has_columns
\* false) or is empty -> the errors are returned; else the table is cast and
\* standardized, written to the local cache file (cache_ok) and, row by row,
\* to the record store (the rows in failed are refused), and the session
\* state is set; success = local_cache or feishu
SaveData(df, has_columns, save_to_feishu, cache_ok, failed, ok, latest) ==
    LET cast == CastColumnTypes(df)
        ov_df == IF ok THEN FetchOverrides(overrides) ELSE <<>>
        out == StandardizeData(cast, decay_lambda, ov_df, latest)
        feishu == save_to_feishu /\ failed = {}
    IN  /\ pc # "init"
        /\ latest \in FetchOverridesLatest(ov_df)
        /\ IF ~has_columns \/ DOMAIN df = {}
           THEN /\ pc' = "save_data_invalid"
                /\ UNCHANGED <<projects, local_cache, edited_data, sessionVars, ov_fetch>>
           ELSE /\ ov_fetch' = IF ok THEN "ok" ELSE "failed"
                /\ local_cache' = IF cache_ok THEN Some(cast) ELSE local_cache
                /\ projects' =
                       IF save_to_feishu
                       THEN [r \in DOMAIN projects |->
                               IF r \in DOMAIN df \ failed
                               THEN WriteBack(projects[r], cast[r])
                               ELSE projects[r]]
                       ELSE projects
                /\ SetSession(out, IF feishu THEN "feishu" ELSE "local_cache")
                /\ pc' = IF cache_ok \/ feishu THEN "save_data" ELSE "save_data_failed"
        /\ UNCHANGED <<overrides, decay_lambda, returned, next_fid, clock, ov_services>>
        /\ UNCHANGED <<scheduleVars, cashVars, templateVars, analysisVars>>

----------------------------------------------------------------------------
(* Initial states *)

RateCell(kind, x, y) == [k |-> kind, a |-> x, b |-> y]

ProjectRow(cust, bl, amt, rate, sd, dd, ed) ==
    [customer |-> cust, business_line |-> bl, amount_cell |-> amt,
     rate_cell |-> rate, start_date |-> sd, delivery_date |-> dd,
     expected_date |-> ed]

\* rows of the record store for r1: contract amount 100 or -5, win rate 50,
\* "50-80" or unparsable, expected completion missing or 181 days ahead
ProjectRowsR1 ==
    {ProjectRow("acme", "spectrum", c[1], c[2], Date(2024, 1, 31), NoDate, c[3]) :
        c \in {<<Some(10000), RateCell("num", 50, 0), NoDate>>,
               <<Some(10000), RateCell("range", 50, 80), Date(2024, 7, 30)>>,
               <<Some(10000), RateCell("text", 0, 0), NoDate>>,
               <<Some(-500), RateCell("num", 50, 0), Date(2024, 7, 30)>>}}

\* r2: contract amount 20 at 100 percent, delivery date only
ProjectRowsR2 ==
    {ProjectRow("bolt", "automation", Some(2000), RateCell("num", 100, 0),
                NoDate, Date(2024, 3, 31), NoDate)}

ProjectTables ==
    {[r \in RIDs |-> IF r = "r1" THEN p1 ELSE p2] :
        p1 \in ProjectRowsR1, p2 \in ProjectRowsR2}

\* decay_lambda of the forecast config: 0.1 per month
Lambdas == {100}

\* rows the Overrides table of the record store can hold; a row written
\* outside upsert_override may lack the amount or updated_at
OverrideFields ==
    [record_id : RIDs, amount : {None, Some(-5000), Some(12345)},
     updated_at : {None, Some(1), Some(2)}]

OverrideTables ==
    UNION {{[i \in 1..n |-> [fid |-> i] @@ f[i]] : f \in [1..n -> OverrideFields]} :
              n \in 0..MaxOverrides}

InitSchedule == schedules = <<>> /\ ps_cache = None /\ editor = <<>>
InitCash == cf_row = <<>> /\ cash_flow = <<>> /\ stages_used = <<>>
InitTemplate == tpl_in = <<>> /\ tpl_out = <<>>
InitAnalysis ==
    /\ cash_flow_df = <<>>
    /\ current_month = NoDate
    /\ months_ahead = 0
    /\ initial_cash = 0
    /\ monthly_expense = 0
    /\ monthly_costs = <<>>
    /\ tax_rate = 0
    /\ monthly_summary = <<>>
    /\ forecast_df = <<>>
    /\ runway = <<>>
InitSession ==
    /\ edited_data = None
    /\ data_hash = None
    /\ data_version = None
    /\ data_source = "none"
    /\ ov_services = <<>>
    /\ local_cache = None
    /\ returned = None
    /\ ov_fetch = "none"
    /\ pc = "init"

\* override resolution over every content of the record store
InitResolve ==
    /\ projects \in ProjectTables
    /\ decay_lambda \in Lambdas
    /\ overrides \in OverrideTables
    /\ next_fid = Len(overrides) + 1
    /\ clock = 0
    /\ InitAnalysis /\ InitSession /\ InitSchedule /\ InitCash /\ InitTemplate

NextResolve == \E force \in BOOLEAN : GetActiveData(force)

SpecResolve == InitResolve /\ [][NextResolve]_vars

\* a page session over an initially empty Overrides table
InitSessionSpec ==
    /\ projects \in {t \in ProjectTables : t["r1"].amount_cell = Some(10000)}
    /\ decay_lambda \in Lambdas
    /\ overrides = <<>>
    /\ next_fid = 1
    /\ clock = 0
    /\ InitAnalysis /\ InitSession /\ InitSchedule /\ InitCash /\ InitTemplate

NextSession ==
    \/ \E force \in BOOLEAN : GetActiveData(force)
    \/ \E rid \in RIDs, amt \in OverrideInputs, ok \in BOOLEAN :
           SaveOverrides(rid, amt, ok)

SpecSession == InitSessionSpec /\ [][NextSession]_vars

\* bound of the model: the longest stage list of an editor or a validation
MaxStages == 2

\* the name of the i-th row of the schedule editor
PositionName(i) == <<"down_payment", "acceptance", "warranty", "extra">>[i]
PositionDate(i) == Date(2024, 2 + i, 15)

\* contents of the schedule editor at the save click: a name in every row
\* (the column is required), a percentage in [0, 100], dates given or not
EditorStageLists ==
    UNION {{[i \in 1..n |->
                [name |-> PositionName(i), pct |-> rs[i],
                 date |-> IF dated THEN PositionDate(i) ELSE NoDate]] :
               rs \in [1..n -> {0, 500, 1000}], dated \in BOOLEAN} :
              n \in 1..MaxStages}

TemplateChoices == {"custom", "full_payment"}

\* the payment schedule editor over an initially empty schedule table
InitScheduleSpec ==
    /\ projects \in {t \in ProjectTables :
                        t["r1"].rate_cell = RateCell("num", 50, 0)}
    /\ decay_lambda \in Lambdas
    /\ overrides = <<>>
    /\ next_fid = 1
    /\ clock = 0
    /\ InitAnalysis /\ InitSession /\ InitSchedule /\ InitCash /\ InitTemplate

NextSchedule ==
    \E rid \in RIDs, tname \in TemplateChoices, rows \in EditorStageLists,
       load_ok \in BOOLEAN, write_ok \in BOOLEAN :
        SavePaymentSchedule(rid, tname, rows, load_ok, write_ok)

SpecSchedule == InitScheduleSpec /\ [][NextSchedule]_vars

\* schedule tables the save handler leaves behind: at most one row of
\* project r2 followed by at most one row of project r1
ScheduleRow(rid, rows, now) ==
    [record_id |-> rid, template_name |-> "custom",
     payment_stages |-> JsonDumps(NewStages(rows)), updated_at |-> now]

AcceptedStageLists ==
    {rows \in EditorStageLists : ~(Abs(SumRatios(NewStages(rows)) - 1000) > 10)}

SavedScheduleTables ==
    LET other == ScheduleRow("r2", <<[name |-> "full", pct |-> 1000,
                                      date |-> Date(2024, 6, 30)]>>, 1)
    IN  {<<>>, <<other>>}
        \cup {<<ScheduleRow("r1", rows, 1)>> : rows \in AcceptedStageLists}
        \cup {<<other, ScheduleRow("r1", rows, 2)>> : rows \in AcceptedStageLists}

\* project rows handed to the projector.  A row of the standardized table
\* carries final_amount (the override when there is one); a row of a table
\* that was not standardized carries no final_amount.
CashRow(bl, sd, dd, ed, fin, man, amt) ==
    [record_id |-> "r1", customer |-> "acme", business_line |-> bl,
     start_date |-> sd, delivery_date |-> dd, expected_date |-> ed,
     final_amount |-> fin, manual_override |-> man, amount |-> amt]

CashAmounts ==
    {<<Some(6000), Some(6000), Some(10000)>>,
     <<Some(4500), None, Some(10000)>>,
     <<Some(0), None, None>>,
     <<Some(-500), Some(-500), Some(10000)>>,
     <<None, Some(6000), Some(10000)>>,
     <<None, None, Some(10000)>>,
     <<None, None, None>>}

CashRows ==
    {CashRow(bl, sd, dd, ed, a[1], a[2], a[3]) :
        bl \in {"spectrum", "automation", "other"},
        sd \in {NoDate, Date(2024, 1, 31)},
        dd \in {NoneDate, NoDate, Date(2024, 3, 31)},
        ed \in {NoDate, Date(2024, 7, 30)},
        a \in CashAmounts}

\* one projection by a fresh UnifiedCashFlowService
InitCashFlowSpec ==
    /\ projects \in {t \in ProjectTables :
                        t["r1"].rate_cell = RateCell("num", 50, 0)}
    /\ decay_lambda \in Lambdas
    /\ overrides = <<>>
    /\ next_fid = 1
    /\ clock = 0
    /\ InitAnalysis /\ InitSession /\ InitTemplate
    /\ schedules \in SavedScheduleTables
    /\ ps_cache = None
    /\ editor = <<>>
    /\ cf_row \in CashRows
    /\ cash_flow = <<>>
    /\ stages_used = <<>>

NextCashFlow == \E load_ok \in BOOLEAN : CalculateProjectCashFlow(load_ok)

SpecCashFlow == InitCashFlowSpec /\ [][NextCashFlow]_vars

\* stage lists handed to validate_template.  The ratios are chosen so that
\* no list sums to exactly 0.99 or 1.01
ValidationStages ==
    [name : {"", "down_payment"}, ratio : {-100, 0, 496, 500, 512, 1000, 1100}]

ValidationInputs ==
    UNION {[1..n -> ValidationStages] : n \in 0..MaxStages}

InitValidateSpec ==
    /\ projects \in {t \in ProjectTables :
                        t["r1"].rate_cell = RateCell("num", 50, 0)}
    /\ decay_lambda \in Lambdas
    /\ overrides = <<>>
    /\ next_fid = 1
    /\ clock = 0
    /\ InitAnalysis /\ InitSession /\ InitSchedule /\ InitCash
    /\ tpl_in \in ValidationInputs
    /\ tpl_out = None

NextValidate == ValidateTemplate

SpecValidate == InitValidateSpec /\ [][NextValidate]_vars

\* bound of the model: the longest cash-flow table handed to the analysis
MaxEntries == 3

\* cash-flow entries as the projectors emit them: dated in December 2024 or
\* January 2025, or undated with the empty month string; and entries of a
\* table without month column (NaN month), dated or not
EntryDates ==
    {<<Date(2024, 12, 15), <<2024, 12>> >>,
     <<Date(2025, 1, 15), <<2025, 1>> >>,
     <<NoneDate, <<>> >>,
     <<Date(2024, 12, 15), NaMonth>>,
     <<NoDate, NaMonth>>}

Entries ==
    {[project_name |-> n, amount |-> a, pay_date |-> d[1], month |-> d[2]] :
        n \in {"acme", "bolt"}, a \in {300000, 500000}, d \in EntryDates}

EntryTables == UNION {[1..n -> Entries] : n \in 0..MaxEntries}

InitRecordStore ==
    /\ projects \in {t \in ProjectTables :
                        /\ t["r1"].rate_cell = RateCell("num", 50, 0)
                        /\ t["r1"].amount_cell = Some(10000)}
    /\ decay_lambda \in Lambdas
    /\ overrides = <<>>
    /\ next_fid = 1
    /\ clock = 0

InitMonthlySpec ==
    /\ InitRecordStore
    /\ InitSession /\ InitSchedule /\ InitCash /\ InitTemplate
    /\ cash_flow_df \in EntryTables
    /\ current_month = NoDate
    /\ months_ahead = 0
    /\ initial_cash = 0
    /\ monthly_expense = 0
    /\ monthly_costs = <<>>
    /\ tax_rate = 0
    /\ monthly_summary = <<>>
    /\ forecast_df = <<>>
    /\ runway = <<>>

NextMonthly == MonthlySummary

SpecMonthly == InitMonthlySpec /\ [][NextMonthly]_vars

\* bound of the model: the longest forecast horizon
MaxMonths == 3

\* the first day of the month of datetime.now()
CurrentMonths == {Date(2024, 11, 1), Date(2024, 12, 1)}

\* the tables of one project with entries of one amount
ForecastTables ==
    {t \in EntryTables :
        \A i \in 1..Len(t) : t[i].project_name = "acme" /\ t[i].amount = 300000}

InitForecastSpec ==
    /\ InitRecordStore
    /\ InitSession /\ InitSchedule /\ InitCash /\ InitTemplate
    /\ cash_flow_df \in ForecastTables
    /\ current_month \in CurrentMonths
    /\ months_ahead \in 0..MaxMonths
    /\ initial_cash = 0
    /\ monthly_expense = 0
    /\ monthly_costs = <<>>
    /\ tax_rate = 0
    /\ monthly_summary = <<>>
    /\ forecast_df = <<>>
    /\ runway = <<>>

NextForecast == \E fill_zero_months \in BOOLEAN : Forecast(fill_zero_months)

SpecForecast == InitForecastSpec /\ [][NextForecast]_vars

\* the entry tables of the runway runs: one project, payments of 20.0 or
\* 90.0 in November 2024 .. January 2025, or undated
RunwayEntries ==
    {[project_name |-> "acme", amount |-> a, pay_date |-> d[1], month |-> d[2]] :
        a \in {2000000, 9000000},
        d \in {<<Date(2024, 11, 15), <<2024, 11>> >>,
               <<Date(2024, 12, 15), <<2024, 12>> >>,
               <<Date(2025, 1, 15), <<2025, 1>> >>,
               <<NoneDate, <<>> >>}}

RunwayTables == UNION {[1..n -> RunwayEntries] : n \in 0..MaxEntries}

\* the inputs of CashFlowHelper.calculate_runway: initial cash 0 or 100.0,
\* monthly expense 0 or 50.0
InitHelperRunway ==
    /\ InitRecordStore
    /\ InitSession /\ InitSchedule
    /\ cash_flow_df \in RunwayTables
    /\ current_month = Date(2024, 11, 1)
    /\ months_ahead \in 0..MaxMonths
    /\ initial_cash \in {0, 10000000}
    /\ monthly_expense \in {0, 5000000}
    /\ monthly_costs = <<>>
    /\ tax_rate = 0

\* the projects of the page runs: r1 of 40.0 (or 0) at 50 percent, started
\* in December 2024, delivered in January 2025 or undelivered; r2 of 20.0
\* at 100 percent, delivered in December 2024
PageProjectTables ==
    {[r \in RIDs |->
         IF r = "r1"
         THEN ProjectRow("acme", "spectrum", amt, RateCell("num", 50, 0),
                         Date(2024, 12, 10), dd, NoDate)
         ELSE ProjectRow("bolt", "automation", Some(2000),
                         RateCell("num", 100, 0), NoDate, Date(2024, 12, 5),
                         NoDate)] :
        amt \in {Some(4000), Some(0)}, dd \in {NoDate, Date(2025, 1, 20)}}

\* the schedule table of the page runs: empty, or one saved schedule of r1
PageSchedules ==
    {<<>>,
     <<ScheduleRow("r1", <<[name |-> "full", pct |-> 1000,
                            date |-> Date(2025, 1, 20)]>>, 1)>>,
     <<ScheduleRow("r1", <<[name |-> "deposit", pct |-> 500,
                            date |-> Date(2024, 11, 20)],
                           [name |-> "balance", pct |-> 500,
                            date |-> NoDate]>>, 1)>>}

\* the costs of one month of the page's range, in 10^-7 wan: nothing, or
\* costs of 10.0 and an occasional income of 2.0
PageMonthCosts ==
    {[cost |-> 0, occ_income |-> 0],
     [cost |-> 100000000, occ_income |-> 20000000]}

\* the inputs of the page: the table get_active_data returned without decay
\* and without overrides, a tax rate of 0 or 13 percent, current cash 0 or
\* 30.0, a range of 1..MaxMonths months from November 2024
InitPageRunway ==
    /\ projects \in PageProjectTables
    /\ decay_lambda = 0
    /\ overrides = <<>>
    /\ next_fid = 1
    /\ clock = 0
    /\ edited_data = Some(StandardizeData(projects, decay_lambda, <<>>, <<>>))
    /\ returned = edited_data
    /\ data_hash = Some(ComputeHash(Val(edited_data)))
    /\ data_version = Some(0)
    /\ data_source = "feishu"
    /\ ov_services = <<>>
    /\ local_cache = None
    /\ ov_fetch = "ok"
    /\ pc = "init"
    /\ schedules \in PageSchedules
    /\ ps_cache = None
    /\ editor = <<>>
    /\ cash_flow_df = <<>>
    /\ current_month = Date(2024, 11, 1)
    /\ months_ahead \in 1..MaxMonths
    /\ initial_cash \in {0, 300000000}
    /\ monthly_expense = 0
    /\ monthly_costs \in [1..months_ahead -> PageMonthCosts]
    /\ tax_rate \in {0, 13}

InitRunwaySpec ==
    /\ InitHelperRunway \/ InitPageRunway
    /\ InitCash /\ InitTemplate
    /\ monthly_summary = <<>>
    /\ forecast_df = <<>>
    /\ runway = <<>>

NextRunway ==
    \/ HelperRunway
    \/ \E loads \in [1..Len(RowOrder) -> BOOLEAN] : PageRunway(loads)

SpecRunway == InitRunwaySpec /\ [][NextRunway]_vars

\* decay_lambda of the forecast config: negative, 0, 0.1 or 1.0 per month
DecayLambdas == {-50, 0, 100, 1000}

\* the record store of the decay runs: both projects at 100 percent; r1 of
\* 100.0 or -5.0 with an expected completion that is missing, past, the day
\* after today, or 30 or 181 days ahead, and with or without delivery and
\* start date; r2 of 100.0 with or without expected completion and delivery
DecayTables ==
    {[r \in RIDs |->
         IF r = "r1"
         THEN ProjectRow("acme", "spectrum", amt, RateCell("num", 100, 0),
                         sd, dd, ed)
         ELSE ProjectRow("bolt", "automation", Some(10000),
                         RateCell("num", 100, 0), NoDate, dd2, ed2)] :
        amt \in {Some(10000), Some(-500)},
        sd \in {NoDate, Date(2024, 2, 15)},
        dd \in {NoDate, Date(2024, 5, 1)},
        ed \in {NoDate, Date(2023, 12, 1), Date(2024, 2, 1), Date(2024, 3, 1),
                Date(2024, 7, 30)},
        dd2 \in {NoDate, Date(2024, 3, 31)},
        ed2 \in {NoDate, Date(2024, 7, 30)}}

InitDecaySpec ==
    /\ projects \in DecayTables
    /\ decay_lambda \in DecayLambdas
    /\ overrides = <<>>
    /\ next_fid = 1
    /\ clock = 0
    /\ InitAnalysis /\ InitSession /\ InitSchedule /\ InitCash /\ InitTemplate

NextDecay == \E force \in BOOLEAN : GetActiveData(force)

SpecDecay == InitDecaySpec /\ [][NextDecay]_vars

\* win-rate cells of the record store: empty, plain numbers inside and
\* outside [0, 100], percentage strings, ranges with a midpoint inside and
\* outside [0, 100], and text
RateCells ==
    {RateCell("none", 0, 0), RateCell("text", 0, 0)}
        \cup {RateCell("num", a, 0) : a \in {-10, 0, 50, 100, 120}}
        \cup {RateCell("pct", a, 0) : a \in {80, 150}}
        \cup {RateCell("range", c[1], c[2]) :
                 c \in {<<50, 80>>, <<45, 50>>, <<90, 120>>, <<0, 150>>}}

\* the record store of the win-rate runs: two projects of 100.0 and 20.0
\* without dates, each with any win-rate cell
RateTables ==
    {[r \in RIDs |->
         IF r = "r1"
         THEN ProjectRow("acme", "spectrum", Some(10000), c1, NoDate, NoDate, NoDate)
         ELSE ProjectRow("bolt", "automation", Some(2000), c2, NoDate, NoDate, NoDate)] :
        c1 \in RateCells, c2 \in RateCells}

InitRateSpec ==
    /\ projects \in RateTables
    /\ decay_lambda \in Lambdas
    /\ overrides = <<>>
    /\ next_fid = 1
    /\ clock = 0
    /\ InitAnalysis /\ InitSession /\ InitSchedule /\ InitCash /\ InitTemplate

NextRate == \E force \in BOOLEAN : GetActiveData(force)

SpecRate == InitRateSpec /\ [][NextRate]_vars

\* the project tables of the batch runs: r1 with a final amount of 45.0 or
\* 0, with or without start, delivery (None, NaT or a date) and expected
\* completion; r2 of 20.0 with a delivery date only
BatchTables ==
    {[r \in RIDs |->
         IF r = "r1" THEN row
         ELSE [CashRow("automation", NoDate, Date(2024, 3, 31), NoDate,
                       Some(2000), None, Some(2000))
                   EXCEPT !.record_id = "r2", !.customer = "bolt"]] :
        row \in {c \in CashRows :
                    /\ c.business_line = "spectrum"
                    /\ <<c.final_amount, c.manual_override, c.amount>>
                          \in {<<Some(4500), None, Some(10000)>>,
                               <<Some(0), None, None>>,
                               <<None, None, Some(10000)>>}}}

\* the schedule table of the batch runs: empty; a schedule of r1 that is
\* sound, that has a text in the ratio of its second stage, or whose
\* payment_stages is not JSON; and the same behind a sound schedule of r2
BatchSchedules ==
    LET sound == ScheduleRow("r1", <<[name |-> "deposit", pct |-> 500,
                                      date |-> Date(2024, 2, 15)],
                                     [name |-> "balance", pct |-> 500,
                                      date |-> NoDate]>>, 1)
        text_ratio ==
            [sound EXCEPT !.payment_stages =
                JsonDumps(<<[name |-> "deposit", ratio |-> 500,
                             date |-> Some(DateToDays(Date(2024, 2, 15)))],
                            [name |-> "balance", ratio |-> 0,
                             ratio_text |-> TRUE, date |-> None]>>)]
        not_json == [sound EXCEPT !.payment_stages = [k |-> "text", v |-> <<>>]]
        other == ScheduleRow("r2", <<[name |-> "full", pct |-> 1000,
                                      date |-> Date(2024, 6, 30)]>>, 1)
    IN  {<<>>, <<other>>}
            \cup {<<s>> : s \in {sound, text_ratio, not_json}}
            \cup {<<other, s>> : s \in {sound, text_ratio, not_json}}

InitBatchSpec ==
    /\ InitRecordStore
    /\ InitAnalysis /\ InitCash /\ InitTemplate
    /\ edited_data = None
    /\ data_hash = None /\ data_version = None /\ data_source = "none"
    /\ ov_services = <<>>
    /\ local_cache = None
    /\ returned \in {Some(t) : t \in BatchTables}
    /\ ov_fetch = "none"
    /\ pc = "init"
    /\ schedules \in BatchSchedules
    /\ ps_cache = None
    /\ editor = <<>>

NextBatch == \E load_ok \in BOOLEAN : CalculateAllCashFlows(load_ok)

SpecBatch == InitBatchSpec /\ [][NextBatch]_vars

\* the rows of the template runs: start and delivery date missing (None or
\* NaT), at a month end (of a leap and of a common year) or mid-month
TemplateRows ==
    {CashRow("spectrum", sd, dd, NoDate, Some(4500), None, Some(10000)) :
        sd \in {NoDate, Date(2024, 1, 15), Date(2024, 3, 31), Date(2023, 3, 31)},
        dd \in {NoneDate, NoDate, Date(2024, 1, 31), Date(2023, 1, 31),
                Date(2024, 2, 29), Date(2024, 12, 31)}}

InitTemplateSpec ==
    /\ InitRecordStore
    /\ InitAnalysis /\ InitSession /\ InitSchedule /\ InitTemplate
    /\ cf_row \in TemplateRows
    /\ cash_flow = <<>>
    /\ stages_used = <<>>

NextTemplate ==
    \E template_name \in DOMAIN PAYMENT_TEMPLATES :
        ApplyTemplateToProject(template_name)

SpecTemplate == InitTemplateSpec /\ [][NextTemplate]_vars

\* the editor contents of the engine runs: one payment in full, or two
\* halves
EngineStageLists ==
    {<<[name |-> "full", pct |-> 1000, date |-> Date(2024, 6, 30)]>>,
     <<[name |-> "deposit", pct |-> 500, date |-> Date(2024, 2, 15)],
       [name |-> "balance", pct |-> 500, date |-> NoDate]>>}

\* one service instance computing the cash flow of r1 before and after
\* schedule saves, over an initially empty schedule table; every read of
\* the schedule table by the service succeeds
InitEngineSpec ==
    /\ InitRecordStore
    /\ InitAnalysis /\ InitSession /\ InitSchedule /\ InitTemplate
    /\ cf_row \in {c \in CashRows :
                      /\ c.business_line = "spectrum"
                      /\ c.final_amount = Some(4500)
                      /\ c.expected_date = NoDate
                      /\ c.delivery_date # NoneDate}
    /\ cash_flow = <<>>
    /\ stages_used = <<>>

NextEngine ==
    \/ CalculateProjectCashFlow(TRUE)
    \/ \E rows \in EngineStageLists, load_ok \in BOOLEAN, write_ok \in BOOLEAN :
          SavePaymentSchedule("r1", "custom", rows, load_ok, write_ok)

SpecEngine == InitEngineSpec /\ [][NextEngine]_vars

\* two OverrideService instances created over an empty Overrides table, each
\* upserting and deleting overrides of r1 and r2 while time passes
Services == {"s1", "s2"}

InitOverrideSpec ==
    /\ projects \in {t \in ProjectTables : t["r1"].amount_cell = Some(10000)
                                           /\ t["r1"].rate_cell.k = "num"}
    /\ decay_lambda \in Lambdas
    /\ overrides = <<>>
    /\ next_fid = 1
    /\ clock = 0
    /\ ov_services = [s \in Services |-> [record_id_cache |-> None, cache_age |-> 0]]
    /\ edited_data = None /\ local_cache = None /\ returned = None
    /\ data_hash = None /\ data_version = None /\ data_source = "none"
    /\ ov_fetch = "none" /\ pc = "init"
    /\ InitAnalysis /\ InitSchedule /\ InitCash /\ InitTemplate

NextOverride ==
    \/ \E s \in Services, rid \in RIDs, amt \in {12345}, read_ok, write_ok \in BOOLEAN :
           ServiceUpsertOverride(s, rid, amt, read_ok, write_ok)
    \/ \E s \in Services, rid \in RIDs, read_ok, write_ok \in BOOLEAN :
           ServiceDeleteOverride(s, rid, read_ok, write_ok)
    \/ Tick

SpecOverride == InitOverrideSpec /\ [][NextOverride]_vars

\* tables a caller hands to save_data: the session copy's projects with the
\* contract amount of r1 edited to 120 or to -5, or an empty table
SaveInputs ==
    {[projects EXCEPT !["r1"].amount_cell = a] : a \in {Some(12000), Some(-500)}}
        \cup {<<>>}

\* a session that reads the project data and saves edited tables
InitSaveSpec ==
    /\ projects \in {t \in ProjectTables : t["r1"].amount_cell = Some(10000)}
    /\ decay_lambda \in Lambdas
    /\ overrides \in {t \in OverrideTables :
                         Len(t) = 0 \/ (Len(t) = 1 /\ t[1].record_id = "r1"
                                          /\ t[1].amount = Some(12345)
                                          /\ t[1].updated_at = Some(1))}
    /\ next_fid = Len(overrides) + 1
    /\ clock = 0
    /\ InitAnalysis /\ InitSession /\ InitSchedule /\ InitCash /\ InitTemplate

NextSave ==
    \/ \E force \in BOOLEAN : GetActiveData(force)
    \/ \E df \in SaveInputs, has_columns, save_to_feishu, cache_ok, ok \in BOOLEAN :
           \E failed \in SUBSET DOMAIN df :
               \E latest \in FetchOverridesLatest(
                                IF ok THEN FetchOverrides(overrides) ELSE <<>>) :
                   SaveData(df, has_columns, save_to_feishu, cache_ok, failed, ok, latest)

SpecSave == InitSaveSpec /\ [][NextSave]_vars

----------------------------------------------------------------------------
(* Claims on override resolution *)

\* indices of the rows of the Overrides table for record_id r with an amount
OverrideRowsOf(r) ==
    {i \in 1..Len(overrides) :
        overrides[i].record_id = r /\ NotNone(overrides[i].amount)}

FreshRead == pc = "get_active_data" /\ ov_fetch = "ok"

C2_FinalAmountNonNegative ==
    NotNone(returned) =>
        \A r \in DOMAIN Val(returned) : Val(Val(returned)[r].final_amount) >= 0

\* C5: when a record_id has several override rows, the amount resolved is
\* that of a row with the greatest updated_at; a row with an older or a
\* missing updated_at never wins over a dated newer one.
C5_LatestOverrideWins ==
    FreshRead =>
        \A r \in DOMAIN Val(returned) :
            LET dated == {i \in OverrideRowsOf(r) : NotNone(overrides[i].updated_at)}
                newest == {i \in dated : \A j \in dated :
                              Val(overrides[j].updated_at) <= Val(overrides[i].updated_at)}
            IN  dated # {} =>
                    \E i \in newest :
                        Val(returned)[r].manual_override =
                            Some(Round2(Val(overrides[i].amount), 10))

\* C6: a read through get_active_data (whose overrides fetch, if any, did
\* not fail) returns every project that has an override in the Overrides
\* table with _final_amount equal to that override's amount.
C6_ReadReturnsStoredOverride ==
    (pc = "get_active_data" /\ ov_fetch # "failed") =>
        \A r \in DOMAIN Val(returned) :
            \A i \in OverrideRowsOf(r) :
                Val(returned)[r].final_amount = Some(Round2(Val(overrides[i].amount), 10))

----------------------------------------------------------------------------
(* Claims on payment schedules and the cash-flow projection *)

\* the projector resolved stages for cf_row from the table of the record store
Projected == pc = "cash_flow" /\ ps_cache = Some(schedules)

\* rows of the schedule table for the project of cf_row
ScheduleRowsOfProject ==
    {i \in 1..Len(schedules) : schedules[i].record_id = cf_row.record_id}

EntryAmounts == [i \in 1..Len(cash_flow) |-> cash_flow[i].amount]

\* C3: for a project with a positive final_amount whose resolved stage
\* ratios sum to 1.0, the amounts of its cash-flow entries sum to its
\* final_amount, whether or not every stage has a date.
C3_EntriesSumToFinalAmount ==
    (/\ Projected
     /\ NotNone(cf_row.final_amount)
     /\ Val(cf_row.final_amount) > 0
     /\ SumRatios(stages_used) = 1000)
    => SumSeq(EntryAmounts) = Val(cf_row.final_amount) * 1000

\* C4: every cash-flow entry of a project is its final_amount times the
\* stage ratio, a missing final_amount counting as 0; neither the override
\* column nor the contract amount is used in its place.
C4_EntriesSizedByFinalAmountOnly ==
    pc = "cash_flow" =>
        LET fin == IF NotNone(cf_row.final_amount)
                   THEN Val(cf_row.final_amount) ELSE 0
        IN  \A i \in 1..Len(cash_flow) :
                cash_flow[i].amount = fin * cash_flow[i].ratio

C8_PersistedSchedulesAreValid ==
    \A i \in 1..Len(schedules) :
        LET stages == schedules[i].payment_stages.v
        IN  /\ Abs(SumRatios(stages) - 1000) <= 10
            /\ \A j \in 1..Len(stages) :
                  stages[j].name # "" /\ stages[j].ratio > 0

\* C9: validate_template fails when the ratio sum differs from 1.0 by more
\* than 0.01 or a stage lacks a name or has a ratio <= 0, succeeds otherwise
\* for a non-empty list, and leaves the stages it is given as they were.
C9_ValidateTemplate ==
    [][pc' = "validated" =>
        LET bad == \/ Abs(SumRatios(tpl_in) - 1000) > 10
                   \/ \E i \in 1..Len(tpl_in) :
                         tpl_in[i].name = "" \/ tpl_in[i].ratio <= 0
        IN  /\ tpl_in' = tpl_in
            /\ bad => tpl_out' = Some(FALSE)
            /\ (~bad /\ tpl_in # <<>>) => tpl_out' = Some(TRUE)]_vars

\* C9 witness: a two-stage list summing to 0.996 was validated and accepted
C9_Witness ==
    /\ pc = "validated"
    /\ Len(tpl_in) = 2
    /\ SumRatios(tpl_in) = 996
    /\ tpl_out = Some(TRUE)

\* C10: when the stages come from a template, a stage whose base date is
\* null is produced with a null date and its cash-flow entry is emitted
\* with an empty month.
C10_UndatedTemplateStageEmitted ==
    (Projected /\ ScheduleRowsOfProject = {}) =>
        \A i \in 1..Len(stages_used) :
            LET tpl == get_template(
                           get_default_template_for_business(cf_row.business_line))
                base_date == IF tpl[i].base = "start"
                             THEN cf_row.start_date ELSE cf_row.delivery_date
            IN  (~HasDate(base_date) /\ ~HasDate(cf_row.expected_date)) =>
                    /\ stages_used[i].date = None
                    /\ \E j \in 1..Len(cash_flow) :
                          /\ cash_flow[j].type = stages_used[i].name
                          /\ cash_flow[j].month = <<>>

----------------------------------------------------------------------------
(* Claims on the monthly summary, the forecast and the runway *)

RECURSIVE SumField(_, _)
SumField(rows, f) ==
    IF rows = <<>> THEN 0 ELSE Head(rows)[f] + SumField(Tail(rows), f)

\* the entries of cash_flow_df that carry a month column value (not NaN)
HasMonthColumn == \A i \in 1..Len(cash_flow_df) : cash_flow_df[i].month # NaMonth

\* C11: the monthly table has one row per month with the sum of the amounts
\* and the number of distinct project names of the entries of that month; no
\* row of it has the empty month; and the sum over all entries is the sum of
\* the monthly totals plus the sum of the empty-month (unscheduled) amounts.
C11_MonthlyAggregation ==
    (pc = "monthly_summary" /\ HasMonthColumn) =>
        LET dated == {i \in 1..Len(cash_flow_df) : cash_flow_df[i].month # <<>>}
            undated == {i \in 1..Len(cash_flow_df) : cash_flow_df[i].month = <<>>}
            unscheduled == [i \in 1..Len(cash_flow_df) |->
                               IF i \in undated THEN cash_flow_df[i].amount ELSE 0]
        IN  /\ \A k \in 1..Len(monthly_summary) :
                  LET m == monthly_summary[k].month
                      of_m == {i \in 1..Len(cash_flow_df) : cash_flow_df[i].month = m}
                  IN  /\ m # <<>>
                      /\ monthly_summary[k].monthly_cash =
                             MonthTotal(cash_flow_df, m, 1)
                      /\ monthly_summary[k].project_count =
                             Cardinality({cash_flow_df[i].project_name : i \in of_m})
            /\ \A i \in dated :
                  \E k \in 1..Len(monthly_summary) :
                      monthly_summary[k].month = cash_flow_df[i].month
            /\ SumField(cash_flow_df, "amount") =
                   SumField(monthly_summary, "monthly_cash")
                   + SumSeq(unscheduled)

\* C12: a forecast with fill_zero_months = True has exactly months_ahead
\* rows, the i-th row being the i-th calendar month from the current month
\* on (consecutive also across the year boundary), for every input table,
\* the empty table included.
C12_ForecastHasEveryMonth ==
    pc = "forecast_filled" =>
        /\ Len(forecast_df) = months_ahead
        /\ \A i \in 1..Len(forecast_df) :
              LET idx == current_month.y * 12 + (current_month.m - 1) + (i - 1)
              IN  forecast_df[i].month = <<idx \div 12, (idx % 12) + 1>>

\* the runway computation has returned a result
RunwayDone == pc \in {"calculate_runway", "page_runway"} /\ NotNone(runway)

\* C13: in the runway table net_flow[i] = income[i] - costs[i], the first
\* balance is initial_cash + net_flow[0] and every later balance is the
\* balance of the month before plus the net flow of the month; a table that
\* is not empty has one row per month of the horizon
C13_BalanceRecurrence ==
    RunwayDone =>
        LET t == Val(runway).monthly_summary
        IN  /\ t # <<>> => Len(t) = months_ahead
            /\ \A i \in 1..Len(t) :
                   /\ t[i].net_flow = t[i].income - t[i].expense
                   /\ t[i].balance =
                          (IF i = 1 THEN initial_cash ELSE t[i - 1].balance)
                              + t[i].net_flow

\* initial 100, income 20 and costs 50 in each of three months: balances
\* 70, 40, 10
C13_Witness ==
    /\ RunwayDone
    /\ initial_cash = 10000000
    /\ LET t == Val(runway).monthly_summary
       IN  /\ Len(t) = 3
           /\ \A i \in 1..3 : t[i].income = 2000000 /\ t[i].expense = 5000000
           /\ <<t[1].balance, t[2].balance, t[3].balance>>
                  = <<7000000, 4000000, 1000000>>

\* C14: runway_months is the length of the longest prefix of months with a
\* balance > 0: the month after the prefix, when there is one, has a balance
\* <= 0, and runway_months is months_ahead when no balance of the table is
\* <= 0
C14_RunwayIsPositivePrefix ==
    RunwayDone =>
        LET t == Val(runway).monthly_summary
            n == Val(runway).runway_months
        IN  /\ n \in 0..Len(t)
            /\ \A i \in 1..n : t[i].balance > 0
            /\ n < Len(t) => t[n + 1].balance <= 0
            /\ (t # <<>> /\ \A i \in 1..Len(t) : t[i].balance > 0)
                   => n = months_ahead

\* the balance is positive again after the month that ended the runway
C14_Witness ==
    /\ RunwayDone
    /\ LET t == Val(runway).monthly_summary
           n == Val(runway).runway_months
       IN  /\ Len(t) = 3
           /\ n = 1
           /\ t[2].balance <= 0
           /\ t[3].balance > 0

\* C15: min_balance is the least balance of the whole runway table, the
\* months after the end of the runway included, and may be negative
C15_MinOverWholeTable ==
    (RunwayDone /\ Val(runway).monthly_summary # <<>>) =>
        LET t == Val(runway).monthly_summary
            m == Val(runway).min_cash_balance
        IN  /\ \E i \in 1..Len(t) : t[i].balance = m
            /\ \A i \in 1..Len(t) : m <= t[i].balance

\* the least balance is negative and is reached only after the month that
\* ended the runway
C15_Witness ==
    /\ RunwayDone
    /\ LET t == Val(runway).monthly_summary
           n == Val(runway).runway_months
           m == Val(runway).min_cash_balance
       IN  /\ m < 0
           /\ n + 1 < Len(t)
           /\ t[Len(t)].balance = m
           /\ \A i \in 1..(n + 1) : t[i].balance > m

\* C16: without any cash-flow data CashFlowHelper.calculate_runway returns
\* runway_months 0, min_balance = initial_cash and an empty monthly table
C16_NoDataResult ==
    (pc = "calculate_runway" /\ cash_flow_df = <<>>) =>
        /\ NotNone(runway)
        /\ Val(runway).runway_months = 0
        /\ Val(runway).min_cash_balance = initial_cash
        /\ Val(runway).monthly_summary = <<>>

\* the no-data result with an initial cash of 100.0
C16_Witness ==
    /\ pc = "calculate_runway"
    /\ cash_flow_df = <<>>
    /\ initial_cash = 10000000
    /\ months_ahead > 0
    /\ runway = Some([runway_months |-> 0, min_cash_balance |-> 10000000,
                      monthly_summary |-> <<>>])

\* the entries of the page's projection that are paid in month m
EntriesOfMonth(m) ==
    {i \in 1..Len(cash_flow_df) : cash_flow_df[i].month = m}

\* C17: on the cash-flow page the tax of every entry is amount x tax_rate,
\* and in every month of the runway table the tax cost is tax_rate x the
\* sales income of that month, so a month without a payment carries no tax
\* (tax_rate in percent, the table in 10^-7 wan)
C17_TaxFollowsPayment ==
    (pc = "page_runway" /\ NotNone(runway)) =>
        LET t == Val(runway).monthly_summary
        IN  /\ \A i \in 1..Len(cash_flow_df) :
                   cash_flow_df[i].tax = cash_flow_df[i].amount * tax_rate
            /\ \A i \in 1..Len(t) :
                   /\ t[i].sales % 100 = 0
                   /\ t[i].tax = tax_rate * (t[i].sales \div 100)
                   /\ EntriesOfMonth(t[i].month) = {} => t[i].tax = 0

\* r1 is delivered in January 2025 and paid by its template in November
\* and January: at 13 percent November carries the tax of its down payment
\* and of nothing else, and December, in which r2 alone is paid, carries
\* the tax of r2's payment
C17_Witness ==
    /\ pc = "page_runway"
    /\ NotNone(runway)
    /\ tax_rate = 13
    /\ schedules = <<>>
    /\ projects["r1"].delivery_date = Date(2025, 1, 20)
    /\ LET t == Val(runway).monthly_summary
       IN  /\ Len(t) = 3
           /\ t[1].tax = 13 * 2000 * 500
           /\ t[2].tax = 13 * 2000 * 300
           /\ t[3].tax > 0

------------------------------------------------------------------------------
(* Claims on the time decay and the win rate *)

\* a read of the record store has returned the standardized table
TableRead == pc = "get_active_data" /\ NotNone(returned)

\* contract amount x win rate / 100 of a returned row, rounded to cents
Undecayed(row) ==
    Round2(row.amount_num * (IF IsNone(row.rate_num) THEN 0
                             ELSE Val(row.rate_num)), 200)

\* the cell of row r in the date column the decay was computed from
DecayDate(r) ==
    LET col == DecayDateColumn(projects)
    IN  IF col = "none" THEN NoDate ELSE projects[r][col]

NoMilestone(r) ==
    /\ ~HasDate(projects[r].expected_date)
    /\ ~HasDate(projects[r].delivery_date)
    /\ ~HasDate(projects[r].start_date)

MilestoneDate(r) ==
    IF HasDate(projects[r].expected_date) THEN projects[r].expected_date
    ELSE IF HasDate(projects[r].delivery_date) THEN projects[r].delivery_date
    ELSE projects[r].start_date

\* the decay factor of a milestone date, in 0.001
MilestoneDecay(dt) ==
    IF decay_lambda <= 0 \/ ~HasDate(dt) THEN 1000
    ELSE LET dd == DeltaDays(dt, Today)
         IN  ExpNeg((decay_lambda * (IF dd < 0 THEN 0 ELSE dd)) \div 30)

\* C19: every project is decayed from its own milestone date, the first
\* non-null of expected completion, delivery and start; only a project with
\* none of the three keeps the factor 1.0
C19_MilestonePerProject ==
    TableRead =>
        LET t == Val(returned)
        IN  \A r \in DOMAIN t :
                t[r].system_pred_amount =
                    Round2(ParseAmountWan(projects[r].amount_cell)
                               * (IF IsNone(t[r].rate_num) THEN 0
                                  ELSE Val(t[r].rate_num))
                               * MilestoneDecay(MilestoneDate(r)), PredDen)

\* C20: a plain number and a percentage string parse to their number, a
\* range a-b to the midpoint (a+b)/2; a cell that cannot be parsed or whose
\* value is outside [0, 100] has no win rate and a predicted amount of 0,
\* and the other rows of the table are computed all the same (win rates in
\* 0.5 percent, amounts in cents)
C20_WinRateParsing ==
    TableRead =>
        LET t == Val(returned)
        IN  /\ DOMAIN t = DOMAIN projects
            /\ \A r \in DOMAIN t :
                   LET c == projects[r].rate_cell
                       valid == \/ c.k \in {"num", "pct"} /\ c.a >= 0 /\ c.a <= 100
                                \/ /\ c.k = "range"
                                   /\ c.a + c.b >= 0 /\ c.a + c.b <= 2 * 100
                   IN  /\ (valid /\ c.k \in {"num", "pct"})
                              => /\ t[r].rate_num = Some(2 * c.a)
                                 /\ 100 * t[r].system_pred_amount
                                        = t[r].amount_num * c.a
                       /\ (valid /\ c.k = "range")
                              => /\ t[r].rate_num = Some(c.a + c.b)
                                 /\ t[r].system_pred_amount
                                        = Round2(t[r].amount_num * (c.a + c.b), 200)
                       /\ ~valid => /\ t[r].rate_num = None
                                    /\ t[r].system_pred_amount = 0

\* r1 at "50-80" is predicted at 65 percent next to r2, whose 120 is out
\* of range and predicted at 0
C20_Witness ==
    /\ TableRead
    /\ projects["r1"].rate_cell = RateCell("range", 50, 80)
    /\ projects["r2"].rate_cell = RateCell("num", 120, 0)
    /\ Val(returned)["r1"].rate_num = Some(130)
    /\ Val(returned)["r1"].system_pred_amount = 6500
    /\ Val(returned)["r2"].system_pred_amount = 0

------------------------------------------------------------------------------
(* Claims on the batch projection, saved schedules and caches *)

\* the stored schedule of project r, as the service reads it
StoredStages(r) == GetProjectPaymentStages(schedules, r)[2]

\* C21: a stored schedule of one project with a stage whose ratio is not a
\* number never aborts calculate_all_cash_flows: the call returns, and it
\* returns the entries of every other project
C21_BatchSurvivesBadProject ==
    (pc \in {"all_cash_flows", "all_cash_flows_raised"}
         /\ \E i \in 1..Len(StoredStages("r1")) :
                "ratio_text" \in DOMAIN StoredStages("r1")[i])
        => /\ pc = "all_cash_flows"
           /\ \E i \in 1..Len(cash_flow_df) : cash_flow_df[i].record_id = "r2"

\* the rows of the schedule table that belong to project r
RowsOfProject(r) == {i \in 1..Len(schedules) : schedules[i].record_id = r}

\* C22: after any sequence of saves, a failed read of the table in between
\* included, the schedule table holds at most one row per project, and
\* after a completed save the stages read back for the saved project are
\* the stages of that save
C22_OneRowLastWriteWins ==
    /\ \A r \in RIDs : Cardinality(RowsOfProject(r)) <= 1
    /\ pc = "schedule_saved" =>
           \A i \in 1..Len(schedules) :
               schedules[i].updated_at = clock =>
                   StoredStages(schedules[i].record_id) = editor

\* the base date of the i-th stage of the applied template
BaseDateOf(i) ==
    IF stages_used[i].base = "start" THEN cf_row.start_date
    ELSE cf_row.delivery_date

\* C23: a template stage with offset_months = n on a non-null base date is
\* dated n calendar months away, the day of the month clamped to the last
\* day of the target month; the base date is the start date for a stage
\* based on start and the delivery date otherwise; _add_months gives the
\* same date
C23_MonthOffsetClamped ==
    pc = "apply_template" =>
        \A i \in 1..Len(editor) :
            LET base == BaseDateOf(i)
                n == stages_used[i].offset_months
            IN  IF HasDate(base)
                THEN /\ NotNone(editor[i].date)
                     /\ LET got == DaysToDate(Val(editor[i].date))
                        IN  /\ got.y * 12 + got.m = base.y * 12 + base.m + n
                            /\ \/ got.d = base.d
                               \/ /\ got.d < base.d
                                  /\ got.d = DaysInMonth(got.y, got.m)
                            /\ got = HelperAddMonths(base, n)
                ELSE IsNone(editor[i].date)

\* 2024-01-31 plus one month is 2024-02-29 and minus one month 2023-12-31
C23_Witness ==
    /\ pc = "apply_template"
    /\ cf_row.start_date = Date(2024, 3, 31)
    /\ cf_row.delivery_date = Date(2024, 1, 31)
    /\ \E i \in 1..Len(editor) :
           /\ stages_used[i].offset_months = 1
           /\ stages_used[i].base = "delivery"
           /\ editor[i].date = Some(DateToDays(Date(2024, 2, 29)))
    /\ \E i \in 1..Len(editor) :
           /\ stages_used[i].offset_months = -1
           /\ stages_used[i].base = "delivery"
           /\ editor[i].date = Some(DateToDays(Date(2023, 12, 31)))

\* C24: when the default template is applied, a stage based on delivery is
\* dated from the delivery date, from the expected completion when the
\* project has no delivery date, and is undated only when both are missing
C24_DeliveryFallsBackToExpected ==
    (pc = "cash_flow" /\ stages_used # <<>>
         /\ "date_obj" \in DOMAIN stages_used[1]) =>
        LET tpl == get_template(
                       get_default_template_for_business(cf_row.business_line))
            base == IF HasDate(cf_row.delivery_date) THEN cf_row.delivery_date
                    ELSE cf_row.expected_date
        IN  \A i \in 1..Len(tpl) :
                tpl[i].base = "delivery" =>
                    stages_used[i].date_obj =
                        (IF HasDate(base)
                         THEN AddMonths(base, tpl[i].offset_months)
                         ELSE NoneDate)

\* C25: every cash-flow computation works on the schedule that is stored
\* for the project at that moment, and on the template only when none is
\* stored
C25_ComputationSeesSavedSchedule ==
    (pc = "cash_flow" /\ GetRevenue(cf_row) > 0) =>
        stages_used = ResolveStages(cf_row, StoredStages(cf_row.record_id))

\* the entries of a projection as a set: project, stage name, amount, month
EntrySet(entries) ==
    {<<entries[i].project_name, entries[i].type, entries[i].amount,
       entries[i].month>> : i \in 1..Len(entries)}

\* C26: for the same project rows and the same stored schedules
\* calculate_all_cash_flows and the page's calculate_unified_cash_flow
\* produce the same set of entries, the undated ones included
C26_SameProjection ==
    (pc = "all_cash_flows" /\ ps_cache = Some(schedules)) =>
        EntrySet(cash_flow_df) =
            EntrySet(calculate_unified_cash_flow(
                         Val(returned), [k \in 1..Len(RowOrder) |-> TRUE], 0, 1))

----------------------------------------------------------------------------
(* Claims on the session state and the override writers *)

\* C27: whatever upsert_override and delete_override calls were issued
\* through the OverrideService instances, the Overrides table holds at most
\* one row per source record_id.
C27_OneOverrideRowPerRecord ==
    \A i, j \in 1..Len(overrides) :
        overrides[i].record_id = overrides[j].record_id => i = j

\* C28: a save_data call that returns success = False (its input was
\* refused, or neither the local cache nor the record store took the write)
\* leaves edited_data, data_hash, data_version and data_source as they were.
C28_FailedSaveKeepsSession ==
    [][pc' \in {"save_data_invalid", "save_data_failed"} =>
           UNCHANGED <<edited_data, data_hash, data_version, data_source>>]_vars

\* the tables _standardize_data can make of rows, over the outcomes of the
\* overrides fetch
StandardizedFrom(rows) ==
    UNION {{StandardizeData(rows, decay_lambda,
                            IF ok THEN FetchOverrides(overrides) ELSE <<>>, latest) :
               latest \in FetchOverridesLatest(
                              IF ok THEN FetchOverrides(overrides) ELSE <<>>)} :
              ok \in BOOLEAN}

\* C29: get_active_data(force_reload=True) returns the rows of the record
\* store and leaves them as the session copy; without force_reload it
\* returns the session copy when there is one, else the local cache file
\* when there is one, else the rows of the record store.
C29_ReadPrecedence ==
    [][/\ GetActiveData(TRUE) =>
              /\ returned' \in {Some(df) : df \in StandardizedFrom(projects)}
              /\ edited_data' = returned'
       /\ GetActiveData(FALSE) =>
              IF NotNone(edited_data) THEN returned' = edited_data
              ELSE IF NotNone(local_cache)
              THEN returned' \in {Some(df) : df \in StandardizedFrom(Val(local_cache))}
              ELSE returned' \in {Some(df) : df \in StandardizedFrom(projects)}]_vars

\* the same, for the reads without force_reload only
C29_UnforcedPrecedence ==
    [][GetActiveData(FALSE) =>
              IF NotNone(edited_data) THEN returned' = edited_data
              ELSE IF NotNone(local_cache)
              THEN returned' \in {Some(df) : df \in StandardizedFrom(Val(local_cache))}
              ELSE returned' \in {Some(df) : df \in StandardizedFrom(projects)}]_vars

\* C30: every template of the catalog passes validate_template, the default
\* template of every business line and the catalog default are keys of the
\* catalog, and the stages resolved for a project without persisted
\* schedule have ratios summing to 1.0.
C30_CatalogIsValid ==
    /\ \A name \in DOMAIN PAYMENT_TEMPLATES : validate_template(PAYMENT_TEMPLATES[name])
    /\ DEFAULT_TEMPLATE \in DOMAIN PAYMENT_TEMPLATES
    /\ \A bl \in DOMAIN DEFAULT_TEMPLATE_BY_BUSINESS :
          DEFAULT_TEMPLATE_BY_BUSINESS[bl] \in DOMAIN PAYMENT_TEMPLATES
    /\ (Projected /\ ScheduleRowsOfProject = {}) =>
          /\ validate_template(stages_used)
          /\ SumRatios(stages_used) = 1000

\* C30 witness: a project of a business line without default template of
\* its own and without persisted schedule was projected with the three
\* stages of the catalog default
C30_Witness ==
    /\ Projected
    /\ ScheduleRowsOfProject = {}
    /\ cf_row.business_line = "other"
    /\ Len(stages_used) = 3
    /\ Len(cash_flow) > 0

====
